---- MODULE Spec2Model ----
(***************************************************************************)
(* Model of config::Config (include/configuration.hpp) and of the          *)
(* JSON <-> YAML bridge output_format::json_to_yaml / yaml_to_json          *)
(* (format_manager.hpp).  Strings whose characters matter (file paths,      *)
(* YAML scalar text, JSON string values) are sequences of one-character     *)
(* strings; store keys are atomic strings.                                  *)
(***************************************************************************)
EXTENDS Integers, Sequences, FiniteSets, TLC

VARIABLES
    config_map,         \* Config::config_map: function from present keys to JSON values
    change_listeners_,  \* Config::change_listeners_: sequence of listener ids
    version_,           \* Config::version_
    env_overrides_,     \* Config::env_overrides_
    mutex_,             \* Config::mutex_: 0 when free, else the holding thread
    fs,                 \* the files: path -> content
    calls,              \* listener invocations made by the last operation
    last,               \* the last completed call: operation, arguments, outcome
    pc,                 \* per thread: position inside the operation it runs
    frame,              \* per thread: the locals of the operation it runs
    script,             \* position of the save / clear / load scenario
    saved,              \* the map the scenario started from
    instances,          \* Config::instance's static map: name -> Config object
    stores,             \* the Config objects made by the registry: object -> its members
    pool,               \* ConfigFactory::get_pooled_config's static map: name -> object
    locks,              \* the static mutexes of the registry and the factory
    handles             \* per thread: the name it asked for and the object it was given

regvars == << instances, stores, pool, locks, handles >>

vars == << config_map, change_listeners_, version_, env_overrides_, mutex_, fs,
           calls, last, pc, frame, script, saved, regvars >>

(***************************************************************************)
(* Bounds of the model.                                                    *)
(***************************************************************************)
MaxListeners == 2

(***************************************************************************)
(* Text: sequences of characters.                                          *)
(***************************************************************************)
Digits == <<"0", "1", "2", "3", "4", "5", "6", "7", "8", "9">>

IsDigit(c) == \E i \in 1..10 : Digits[i] = c

DigitVal(c) == (CHOOSE i \in 1..10 : Digits[i] = c) - 1

INT_MAX == 2147483647

RECURSIVE NatToChars(_)
NatToChars(n) ==
    IF n < 10 THEN << Digits[n + 1] >>
    ELSE NatToChars(n \div 10) \o << Digits[(n % 10) + 1] >>

\* operator<< of a 32-bit int into a stream: decimal, '-' for negatives.
\* -2^31 is outside the values the model draws.
IntToChars(n) == IF n < 0 THEN <<"-">> \o NatToChars(0 - n) ELSE NatToChars(n)

\* The digits of s read as a decimal number, or -1 when it exceeds INT_MAX.
RECURSIVE DigitsToNat(_, _)
DigitsToNat(s, acc) ==
    IF s = <<>> THEN acc
    ELSE LET d == DigitVal(Head(s))
         IN IF acc > (INT_MAX - d) \div 10 THEN -1
            ELSE DigitsToNat(Tail(s), acc * 10 + d)

AllDigits(s) == Len(s) > 0 /\ \A i \in 1..Len(s) : IsDigit(s[i])

StripSign(s) == IF Len(s) > 0 /\ s[1] \in {"-", "+"} THEN Tail(s) ELSE s

IsNegative(s) == Len(s) > 0 /\ s[1] = "-"

(***************************************************************************)
(* nlohmann::json values: [t |-> value_t, v |-> payload].  A 64-bit        *)
(* integer is <<hi, lo>>, its two 32-bit halves as signed 32-bit patterns, *)
(* so that a conversion to int keeps exactly lo.  A float is               *)
(* <<mantissa, scale>>, the decimal mantissa / 10^scale.                   *)
(***************************************************************************)
JNull == [t |-> "null", v |-> <<>>]
JBool(b) == [t |-> "boolean", v |-> b]
JInt64(hi, lo) == [t |-> "number_integer", v |-> <<hi, lo>>]
JInt(n) == JInt64(IF n < 0 THEN -1 ELSE 0, n)
JFloat(m, s) == [t |-> "number_float", v |-> <<m, s>>]
JStr(s) == [t |-> "string", v |-> s]
JArr(items) == [t |-> "array", v |-> items]
JObj(members) == [t |-> "object", v |-> members]

is_string(j) == j.t = "string"

\* The key order of a nlohmann object (std::map) and the order the model
\* walks any key set in: ascending in this list.
KeyOrder ==
    <<"", "HOME", "complex", "example", "key1", "key2", "key3", "name", "nestedKey",
      "version">>

KeyRank(k) == CHOOSE i \in 1..Len(KeyOrder) : KeyOrder[i] = k

RECURSIVE SortedKeys(_)
SortedKeys(S) ==
    IF S = {} THEN <<>>
    ELSE LET k == CHOOSE x \in S : \A y \in S : KeyRank(x) <= KeyRank(y)
         IN <<k>> \o SortedKeys(S \ {k})

(***************************************************************************)
(* YAML::Node: [type |-> NodeType, v |-> payload].  A Scalar holds its     *)
(* text; a Map holds its (key, node) pairs in document order, duplicates   *)
(* kept, as the parser delivers them.                                      *)
(***************************************************************************)
YNull == [type |-> "Null", v |-> <<>>]
YScalar(text) == [type |-> "Scalar", v |-> text]
YSeq(items) == [type |-> "Sequence", v |-> items]
YMap(pairs) == [type |-> "Map", v |-> pairs]

\* The text yaml-cpp stores for a double: shortest decimal form, so 2.0 is "2".
FloatToChars(m, s) ==
    LET a == IF m < 0 THEN 0 - m ELSE m
        ds == NatToChars(a)
        RECURSIVE Pad(_)
        Pad(x) == IF Len(x) <= s THEN Pad(<<"0">> \o x) ELSE x
        p == Pad(ds)
        body == IF s = 0 THEN ds
                ELSE SubSeq(p, 1, Len(p) - s) \o <<".">> \o SubSeq(p, Len(p) - s + 1, Len(p))
    IN IF m < 0 THEN <<"-">> \o body ELSE body

(***************************************************************************)
(* YAML::convert<bool>, convert<int>, convert<double> on a scalar's text,  *)
(* as node.as<T>() applies them.                                           *)
(***************************************************************************)
YamlTrueNames ==
    { <<"y">>, <<"Y">>, <<"y", "e", "s">>, <<"Y", "e", "s">>, <<"Y", "E", "S">>,
      <<"t", "r", "u", "e">>, <<"T", "r", "u", "e">>, <<"T", "R", "U", "E">>,
      <<"o", "n">>, <<"O", "n">>, <<"O", "N">> }

YamlFalseNames ==
    { <<"n">>, <<"N">>, <<"n", "o">>, <<"N", "o">>, <<"N", "O">>,
      <<"f", "a", "l", "s", "e">>, <<"F", "a", "l", "s", "e">>,
      <<"F", "A", "L", "S", "E">>, <<"o", "f", "f">>, <<"O", "f", "f">>,
      <<"O", "F", "F">> }

ParsesAsBool(text) == text \in YamlTrueNames \cup YamlFalseNames

\* stream >> int: optional sign, decimal digits, nothing after them, in range.
\* (Hexadecimal and octal spellings are outside the texts the model draws.)
ParsesAsInt(text) ==
    /\ AllDigits(StripSign(text))
    /\ DigitsToNat(StripSign(text), 0) >= 0

TextToInt(text) ==
    LET n == DigitsToNat(StripSign(text), 0)
    IN IF IsNegative(text) THEN 0 - n ELSE n

DotAt(s) == IF \E i \in 1..Len(s) : s[i] = "."
            THEN CHOOSE i \in 1..Len(s) : s[i] = "." /\ \A k \in 1..(i - 1) : s[k] # "."
            ELSE 0

IntPart(s) == IF DotAt(s) = 0 THEN s ELSE SubSeq(s, 1, DotAt(s) - 1)

FracPart(s) == IF DotAt(s) = 0 THEN <<>> ELSE SubSeq(s, DotAt(s) + 1, Len(s))

\* stream >> double: optional sign, digits with at most one '.', nothing after.
\* (Exponents, inf, nan and numbers of more than INT_MAX in their digits are
\* outside the texts the model draws.)
ParsesAsDouble(text) ==
    LET u == StripSign(text)
    IN /\ \A i \in 1..Len(u) : IsDigit(u[i]) \/ u[i] = "."
       /\ \A i \in 1..Len(FracPart(u)) : IsDigit(FracPart(u)[i])
       /\ Len(IntPart(u)) + Len(FracPart(u)) > 0
       /\ DigitsToNat(IntPart(u) \o FracPart(u), 0) >= 0

RECURSIVE NormalizeFloat(_, _)
NormalizeFloat(m, s) ==
    IF s > 0 /\ m % 10 = 0 THEN NormalizeFloat(m \div 10, s - 1) ELSE <<m, s>>

TextToFloat(text) ==
    LET u == StripSign(text)
        n == DigitsToNat(IntPart(u) \o FracPart(u), 0)
        ms == NormalizeFloat(n, Len(FracPart(u)))
    IN JFloat(IF IsNegative(text) THEN 0 - ms[1] ELSE ms[1], ms[2])

(***************************************************************************)
(* output_format::json_to_yaml and output_format::yaml_to_json.            *)
(***************************************************************************)
\* j.get<int>() on a 64-bit integer: the low 32 bits.
GetInt(j) == j.v[2]

RECURSIVE json_to_yaml(_)
json_to_yaml(j) ==
    CASE j.t = "null" -> YNull
      [] j.t = "boolean" -> YScalar(IF j.v THEN <<"t", "r", "u", "e">>
                                           ELSE <<"f", "a", "l", "s", "e">>)
      [] j.t = "number_integer" -> YScalar(IntToChars(GetInt(j)))
      [] j.t = "number_float" -> YScalar(FloatToChars(j.v[1], j.v[2]))
      [] j.t = "string" -> YScalar(j.v)
      [] j.t = "array" ->
            \* node stays the default (Null) node when there is nothing to push
            IF j.v = <<>> THEN YNull
            ELSE YSeq([i \in 1..Len(j.v) |-> json_to_yaml(j.v[i])])
      [] j.t = "object" ->
            IF DOMAIN j.v = {} THEN YNull
            ELSE LET ks == SortedKeys(DOMAIN j.v)
                 IN YMap([i \in 1..Len(ks) |-> <<ks[i], json_to_yaml(j.v[ks[i]])>>])

\* The scalar branch with as<double>() tried before as<int>().
ScalarDoubleBeforeInt(text) ==
    IF ParsesAsBool(text) THEN JBool(text \in YamlTrueNames)
    ELSE IF ParsesAsDouble(text) THEN TextToFloat(text)
    ELSE IF ParsesAsInt(text) THEN JInt(TextToInt(text))
    ELSE JStr(text)

\* The scalar branch: bool, then int, then double, then string.
ScalarToJson(text) ==
    IF ParsesAsBool(text) THEN JBool(text \in YamlTrueNames)
    ELSE IF ParsesAsInt(text) THEN JInt(TextToInt(text))
    ELSE IF ParsesAsDouble(text) THEN TextToFloat(text)
    ELSE JStr(text)

\* j[key] = value for every pair in order: the last pair of a key wins.
PairsToMembers(pairs) ==
    LET ks == {pairs[i][1] : i \in 1..Len(pairs)}
        lastOf(k) == CHOOSE i \in 1..Len(pairs) :
                        /\ pairs[i][1] = k
                        /\ \A n \in (i + 1)..Len(pairs) : pairs[n][1] # k
    IN [k \in ks |-> pairs[lastOf(k)][2]]

RECURSIVE yaml_to_json(_)
yaml_to_json(node) ==
    CASE node.type = "Null" -> JNull
      [] node.type = "Scalar" -> ScalarToJson(node.v)
      [] node.type = "Sequence" ->
            \* j stays null when there is nothing to push_back
            IF node.v = <<>> THEN JNull
            ELSE JArr([i \in 1..Len(node.v) |-> yaml_to_json(node.v[i])])
      [] node.type = "Map" ->
            IF node.v = <<>> THEN JNull
            ELSE JObj(PairsToMembers([i \in 1..Len(node.v) |->
                                         <<node.v[i][1], yaml_to_json(node.v[i][2])>>]))

(***************************************************************************)
(* The inputs the operations are called with.                              *)
(***************************************************************************)
StoreKeys == {"name", "example"}

KeyInputs == StoreKeys \cup {""}

StoreValues == { JStr(<<"a">>), JInt(42), JNull }

\* Callbacks handed to add_change_listener: two that return, one that throws.
Listeners == {"l1", "l2", "thrower"}

ListenerThrows(l) == l = "thrower"

Threads == {1, 2}

(***************************************************************************)
(* Outcomes of a call.                                                     *)
(***************************************************************************)
NoError == "none"
KeyNotFound == "invalid_argument: Unknown configuration key"
InvalidKey == "invalid_argument: Key cannot be empty"
InvalidValue == "invalid_argument: Value for 'example' must be a string"
ListenerError == "exception thrown by a listener"

NoKey == "<no key>"
Nothing == [t |-> "void", v |-> <<>>]
CBool(b) == [t |-> "bool", v |-> b]
MapCopy(cm) == [t |-> "map", v |-> cm]

\* No store obtained from the registry.  A handle names the store and what
\* keeps it: "ref" is the Config & of Config::instance, "own" a shared_ptr
\* with a control block of its own, "pool" a copy of the pool's shared_ptr.
NoHandle == [name |-> "", id |-> 0, block |-> "none"]

Call(op, key, value, ret, thrown, cerr) ==
    [op |-> op, key |-> key, value |-> value, ret |-> ret, thrown |-> thrown, cerr |-> cerr,
     path |-> <<>>, version |-> <<>>, keys |-> <<>>, handle |-> NoHandle]

FileCall(op, path, version, keys, cerr) ==
    [op |-> op, key |-> NoKey, value |-> Nothing, ret |-> Nothing, thrown |-> NoError,
     cerr |-> cerr, path |-> path, version |-> version, keys |-> keys, handle |-> NoHandle]

NoCall == Call("none", NoKey, Nothing, Nothing, NoError, "")

(***************************************************************************)
(* std::unordered_map<std::string, json> as a function on its keys.        *)
(***************************************************************************)
EmptyMap == [k \in {} |-> JNull]

\* m[key] = value
Put(m, key, value) == [k \in DOMAIN m \cup {key} |-> IF k = key THEN value ELSE m[k]]

\* m.erase(key)
Erase(m, key) == [k \in DOMAIN m \ {key} |-> m[k]]

(***************************************************************************)
(* Config::get, set, remove, exists, clear, add_change_listener: the body  *)
(* each runs between taking and releasing mutex_.                          *)
(***************************************************************************)
\* get as config_map[key] would behave: a default value for an absent key.
GetOrDefault(cm, key) ==
    IF key \in DOMAIN cm
    THEN [ret |-> cm[key], thrown |-> NoError]
    ELSE [ret |-> JNull, thrown |-> NoError]

get(cm, key) ==
    IF key \in DOMAIN cm
    THEN [ret |-> cm[key], thrown |-> NoError]
    ELSE [ret |-> Nothing, thrown |-> KeyNotFound]

\* The fan-out walking the listener list from its end.
FanOutReversed(listeners, key, value) ==
    [calls |-> [i \in 1..Len(listeners) |-> <<listeners[Len(listeners) + 1 - i], key, value>>],
     thrown |-> IF \E i \in 1..Len(listeners) : ListenerThrows(listeners[i])
                THEN ListenerError ELSE NoError]

\* for (listener : change_listeners_) listener(key, value): in order, up to
\* and including the first one that throws.
FanOut(listeners, key, value) ==
    LET throwers == {i \in 1..Len(listeners) : ListenerThrows(listeners[i])}
        n == IF throwers = {} THEN Len(listeners)
             ELSE CHOOSE i \in throwers : \A k \in throwers : i <= k
    IN [calls |-> [i \in 1..n |-> <<listeners[i], key, value>>],
        thrown |-> IF throwers = {} THEN NoError ELSE ListenerError]

\* set storing the value before it checks the "example" rule.
SetStoreBeforeCheck(cm, listeners, key, value) ==
    IF key = ""
    THEN [config_map |-> cm, calls |-> <<>>, thrown |-> InvalidKey]
    ELSE IF key = "example" /\ ~is_string(value)
    THEN [config_map |-> Put(cm, key, value), calls |-> <<>>, thrown |-> InvalidValue]
    ELSE LET f == FanOut(listeners, key, value)
         IN [config_map |-> Put(cm, key, value), calls |-> f.calls, thrown |-> f.thrown]

\* set notifying the listeners without storing the value.
SetWithoutStore(cm, listeners, key, value) ==
    IF key = ""
    THEN [config_map |-> cm, calls |-> <<>>, thrown |-> InvalidKey]
    ELSE IF key = "example" /\ ~is_string(value)
    THEN [config_map |-> cm, calls |-> <<>>, thrown |-> InvalidValue]
    ELSE LET f == FanOut(listeners, key, value)
         IN [config_map |-> cm, calls |-> f.calls, thrown |-> f.thrown]

set(cm, listeners, key, value) ==
    IF key = ""
    THEN [config_map |-> cm, calls |-> <<>>, thrown |-> InvalidKey]
    ELSE IF key = "example" /\ ~is_string(value)
    THEN [config_map |-> cm, calls |-> <<>>, thrown |-> InvalidValue]
    ELSE LET f == FanOut(listeners, key, value)
         IN [config_map |-> Put(cm, key, value), calls |-> f.calls, thrown |-> f.thrown]

\* The exception remove throws is caught inside remove and written to cerr.
remove(cm, key) ==
    IF key \in DOMAIN cm
    THEN [config_map |-> Erase(cm, key), thrown |-> NoError, cerr |-> ""]
    ELSE [config_map |-> cm, thrown |-> NoError, cerr |-> "Error in remove"]

exists(cm, key) == key \in DOMAIN cm

clear(cm) == EmptyMap

\* change_listeners_.insert(change_listeners_.begin(), listener)
AddListenerFront(listeners, l) == <<l>> \o listeners

add_change_listener(listeners, l) == Append(listeners, l)

(***************************************************************************)
(* Spec: one caller, each call of the store running from lock to unlock.   *)
(***************************************************************************)
V0 == <<>>

Idle == [t \in Threads |-> "idle"]

\* The locals of a call in progress.  before and after are history: the map
\* when a load was called and the map that load leads to.  caller names the
\* call this one was made from ("none" for a call made by the thread itself).
NoFrame ==
    [op |-> "none", key |-> NoKey, value |-> Nothing, path |-> <<>>, version |-> <<>>,
     keys |-> <<>>, pending |-> <<>>, before |-> <<>>, after |-> <<>>, caller |-> "none"]

NoFrames == [t \in Threads |-> NoFrame]

NoFiles == [p \in {} |-> ""]

\* The registry before the first call: the static maps are empty, the static
\* mutexes free, no thread holds a handle.
NoRegistry ==
    /\ instances = [n \in {} |-> 0]
    /\ stores = [i \in {} |-> <<>>]
    /\ pool = [n \in {} |-> 0]
    /\ locks = [m \in {"instance", "thread_safe", "pool"} |-> 0]
    /\ handles = [t \in Threads |-> NoHandle]

\* No save/clear/load sequence in progress.
NoScript == [at |-> "none", kind |-> "", path |-> <<>>, keys |-> <<>>]

Init ==
    /\ config_map = EmptyMap
    /\ change_listeners_ = <<>>
    /\ version_ = V0
    /\ env_overrides_ = [k \in {} |-> <<>>]
    /\ mutex_ = 0
    /\ fs = NoFiles
    /\ calls = <<>>
    /\ last = NoCall
    /\ pc = Idle
    /\ frame = NoFrames
    /\ script = NoScript
    /\ saved = EmptyMap
    /\ NoRegistry

Set(key, value) ==
    LET r == set(config_map, change_listeners_, key, value)
    IN /\ mutex_ = 0
       /\ config_map' = r.config_map
       /\ calls' = r.calls
       /\ last' = Call("set", key, value, Nothing, r.thrown, "")
       /\ UNCHANGED << regvars, change_listeners_, version_, env_overrides_, mutex_, fs, pc, frame,
                       script, saved >>

Get(key) ==
    LET r == get(config_map, key)
    IN /\ mutex_ = 0
       /\ calls' = <<>>
       /\ last' = Call("get", key, Nothing, r.ret, r.thrown, "")
       /\ UNCHANGED << regvars, config_map, change_listeners_, version_, env_overrides_, mutex_, fs,
                       pc, frame, script, saved >>

Exists(key) ==
    /\ mutex_ = 0
    /\ calls' = <<>>
    /\ last' = Call("exists", key, Nothing, CBool(exists(config_map, key)), NoError, "")
    /\ UNCHANGED << regvars, config_map, change_listeners_, version_, env_overrides_, mutex_, fs,
                    pc, frame, script, saved >>

Remove(key) ==
    LET r == remove(config_map, key)
    IN /\ mutex_ = 0
       /\ config_map' = r.config_map
       /\ calls' = <<>>
       /\ last' = Call("remove", key, Nothing, Nothing, r.thrown, r.cerr)
       /\ UNCHANGED << regvars, change_listeners_, version_, env_overrides_, mutex_, fs, pc, frame,
                       script, saved >>

Clear ==
    /\ mutex_ = 0
    /\ config_map' = clear(config_map)
    /\ calls' = <<>>
    /\ last' = Call("clear", NoKey, Nothing, Nothing, NoError, "")
    /\ UNCHANGED << regvars, change_listeners_, version_, env_overrides_, mutex_, fs, pc, frame,
                    script, saved >>

AddChangeListener(l) ==
    /\ mutex_ = 0
    /\ Len(change_listeners_) < MaxListeners
    /\ change_listeners_' = add_change_listener(change_listeners_, l)
    /\ calls' = <<>>
    /\ last' = Call("add_change_listener", NoKey, Nothing, Nothing, NoError, "")
    /\ UNCHANGED << regvars, config_map, version_, env_overrides_, mutex_, fs, pc, frame, script,
                    saved >>

Next ==
    \/ \E k \in KeyInputs, v \in StoreValues : Set(k, v)
    \/ \E k \in KeyInputs : Get(k)
    \/ \E k \in KeyInputs : Exists(k)
    \/ \E k \in KeyInputs : Remove(k)
    \/ Clear
    \/ \E l \in Listeners : AddChangeListener(l)

Spec == Init /\ [][Next]_vars

(***************************************************************************)
(* Files.  A path is its characters; a file's content is the document the  *)
(* JSON or YAML library wrote or will parse, or nothing (a file that was   *)
(* opened for writing and never written).                                  *)
(***************************************************************************)
PathJson == <<"c", ".", "j", "s", "o", "n">>
PathYaml == <<"c", ".", "y", "a", "m", "l">>
PathTxt == <<"c", ".", "t", "x", "t">>
\* A path in a directory that does not exist: no stream opens on it.
PathNoDir == <<"d", "/", "c", ".", "j", "s", "o", "n">>

ExtJson == <<"j", "s", "o", "n">>
ExtYaml == <<"y", "a", "m", "l">>
ExtYml == <<"y", "m", "l">>

JsonText(j) == [kind |-> "json", doc |-> j]
YamlText(node) == [kind |-> "yaml", doc |-> node]
EmptyText == [kind |-> "empty", doc |-> <<>>]

\* std::ofstream(path).is_open(): the file is created or truncated.
CanOpenForWrite(path) == path # PathNoDir

\* std::ifstream(path).is_open()
CanOpenForRead(files, path) == path \in DOMAIN files

WriteFile(files, path, content) ==
    [p \in DOMAIN files \cup {path} |-> IF p = path THEN content ELSE files[p]]

\* file_path.substr(file_path.find_last_of(".") + 1); npos + 1 wraps to 0.
FindLastOfDot(path) ==
    IF \E i \in 1..Len(path) : path[i] = "."
    THEN CHOOSE i \in 1..Len(path) : path[i] = "." /\ \A k \in (i + 1)..Len(path) : path[k] # "."
    ELSE 0

Extension(path) == SubSeq(path, FindLastOfDot(path) + 1, Len(path))

Codec(path) ==
    IF Extension(path) = ExtJson THEN "json"
    ELSE IF Extension(path) \in {ExtYaml, ExtYml} THEN "yaml"
    ELSE "unsupported"

OpenReadFailed == "Failed to open config file for reading"
OpenWriteFailed == "Failed to open config file for writing"
LoadFailed == "Error while loading config file"
SaveFailed == "Error while saving config file"

\* The (key, value) pairs of a map, keys ascending.
MapPairs(m) ==
    LET ks == SortedKeys(DOMAIN m)
    IN [i \in 1..Len(ks) |-> <<ks[i], m[ks[i]]>>]

\* out << YAML::Key << key << YAML::Value << json_to_yaml(value), per entry.
YamlPairs(m) ==
    LET ks == SortedKeys(DOMAIN m)
    IN [i \in 1..Len(ks) |-> <<ks[i], json_to_yaml(m[ks[i]])>>]

\* config_map.insert({key, value}) for each pair: a key the map holds keeps
\* its value.
MergePairsInsert(cm, pairs) ==
    [k \in DOMAIN cm \cup {pairs[i][1] : i \in 1..Len(pairs)} |->
        IF k \in DOMAIN cm THEN cm[k]
        ELSE pairs[CHOOSE i \in 1..Len(pairs) :
                     pairs[i][1] = k /\ \A n \in 1..(i - 1) : pairs[n][1] # k][2]]

\* config_map[key] = value for each pair in turn.
RECURSIVE MergePairs(_, _)
MergePairs(cm, pairs) ==
    IF pairs = <<>> THEN cm
    ELSE MergePairs(Put(cm, pairs[1][1], pairs[1][2]), Tail(pairs))

(***************************************************************************)
(* Config::save_to_file(path, version), Config::load_from_file(path,       *)
(* version).                                                               *)
(***************************************************************************)
\* What save_to_file streams into the file it opened.
SaveDocument(cm, path, version) ==
    CASE Codec(path) = "json" ->
            \* nlohmann::json j(config_map); j["version"] = version;
            [thrown |-> NoError,
             content |-> JsonText(JObj(Put(cm, "version", JStr(version))))]
      [] Codec(path) = "yaml" ->
            \* the version entry first, then every entry of config_map
            [thrown |-> NoError,
             content |-> YamlText(YMap(<< <<"version", YScalar(version)>> >>
                                       \o YamlPairs(cm)))]
      [] OTHER -> [thrown |-> SaveFailed, content |-> EmptyText]

save_to_file(cm, files, path, version) ==
    IF ~CanOpenForWrite(path)
    THEN [fs |-> files, cerr |-> OpenWriteFailed]
    ELSE LET d == SaveDocument(cm, path, version)
         IN [fs |-> WriteFile(files, path, d.content),
             cerr |-> IF d.thrown = NoError THEN "" ELSE d.thrown]

\* A map key that is itself a sequence or a map: it->first.as<std::string>()
\* throws YAML::BadConversion on it.
ComplexKey == "? [complex key]"

\* yaml_to_json(node) returns instead of throwing.
RECURSIVE Converts(_)
Converts(node) ==
    CASE node.type = "Sequence" -> \A i \in 1..Len(node.v) : Converts(node.v[i])
      [] node.type = "Map" ->
            \A i \in 1..Len(node.v) :
                node.v[i][1] # ComplexKey /\ Converts(node.v[i][2])
      [] OTHER -> TRUE

\* The first pair of a parsed YAML map whose assignment throws, or
\* Len(pairs) + 1 when every pair converts.
FirstFailure(pairs) ==
    LET bad == {i \in 1..Len(pairs) :
                    pairs[i][1] = ComplexKey \/ ~Converts(pairs[i][2])}
    IN IF bad = {} THEN Len(pairs) + 1
       ELSE CHOOSE i \in bad : \A k \in bad : i <= k

\* The pairs load_from_file assigns, in order, from an opened file, and the
\* exception that ends the loop (the pairs before it have been assigned).
LoadDocument(content, path) ==
    CASE Codec(path) = "json" ->
            IF content.kind # "json" THEN [thrown |-> LoadFailed, pairs |-> <<>>]
            ELSE IF content.doc.t = "object"
            THEN [thrown |-> NoError, pairs |-> MapPairs(content.doc.v)]
            ELSE IF content.doc.t = "null" THEN [thrown |-> NoError, pairs |-> <<>>]
            ELSE [thrown |-> LoadFailed, pairs |-> <<>>]
      [] Codec(path) = "yaml" ->
            IF content.kind = "json" THEN [thrown |-> LoadFailed, pairs |-> <<>>]
            ELSE IF content.kind = "malformed" THEN [thrown |-> LoadFailed, pairs |-> <<>>]
            ELSE IF content.kind = "yaml" /\ content.doc.type = "Map"
            THEN LET ps == content.doc.v
                     n == FirstFailure(ps)
                 IN [thrown |-> IF n > Len(ps) THEN NoError ELSE LoadFailed,
                     pairs |-> [i \in 1..(n - 1) |-> <<ps[i][1], yaml_to_json(ps[i][2])>>]]
            ELSE [thrown |-> NoError, pairs |-> <<>>]
      [] OTHER -> [thrown |-> LoadFailed, pairs |-> <<>>]

load_from_file(cm, ver, files, path, version) ==
    IF ~CanOpenForRead(files, path)
    THEN [config_map |-> cm, version_ |-> ver, cerr |-> OpenReadFailed]
    ELSE LET d == LoadDocument(files[path], path)
         IN [config_map |-> MergePairs(cm, d.pairs),
             version_ |-> IF d.thrown = NoError THEN version ELSE ver,
             cerr |-> IF d.thrown = NoError THEN "" ELSE d.thrown]

BackupFailed == "Error in backup_to_file"

\* backup_to_file written as save_to_file(path, "1.0.0"): the format follows
\* the extension and a version entry is added.
BackupAsSave(cm, files, path) ==
    LET r == save_to_file(cm, files, path, <<"1", ".", "0", ".", "0">>)
    IN [fs |-> r.fs, cerr |-> IF r.cerr = "" THEN "" ELSE BackupFailed]

\* Config::backup_to_file: nlohmann::json j(config_map); backup_file << j.dump(4)
backup_to_file(cm, files, path) ==
    IF ~CanOpenForWrite(path)
    THEN [fs |-> files, cerr |-> BackupFailed]
    ELSE [fs |-> WriteFile(files, path, JsonText(JObj(cm))), cerr |-> ""]

(***************************************************************************)
(* Config::save_partial_to_file(path, keys), load_partial_from_file(path,  *)
(* keys).                                                                  *)
(***************************************************************************)
\* The elements of keys that satisfy present, in the order of keys.
RECURSIVE KeepKeys(_, _)
KeepKeys(keys, present) ==
    IF keys = <<>> THEN <<>>
    ELSE (IF Head(keys) \in present THEN <<Head(keys)>> ELSE <<>>)
         \o KeepKeys(Tail(keys), present)

SavePartialDocument(cm, path, keys) ==
    LET ks == KeepKeys(keys, DOMAIN cm)
    IN CASE Codec(path) = "json" ->
               \* nlohmann::json j; j[key] = it->second; j stays null with no key found
               [thrown |-> NoError,
                content |-> JsonText(IF ks = <<>> THEN JNull
                                     ELSE JObj([k \in {ks[i] : i \in 1..Len(ks)} |-> cm[k]]))]
         [] Codec(path) = "yaml" ->
               [thrown |-> NoError,
                content |-> YamlText(YMap([i \in 1..Len(ks) |->
                                              <<ks[i], json_to_yaml(cm[ks[i]])>>]))]
         [] OTHER -> [thrown |-> SaveFailed, content |-> EmptyText]

save_partial_to_file(cm, files, path, keys) ==
    IF ~CanOpenForWrite(path)
    THEN [fs |-> files, cerr |-> OpenWriteFailed]
    ELSE LET d == SavePartialDocument(cm, path, keys)
         IN [fs |-> WriteFile(files, path, d.content),
             cerr |-> IF d.thrown = NoError THEN "" ELSE d.thrown]

\* node[key] of a parsed YAML map: the first pair with that key.
YamlLookup(pairs, key) ==
    pairs[CHOOSE i \in 1..Len(pairs) :
            pairs[i][1] = key /\ \A n \in 1..(i - 1) : pairs[n][1] # key][2]

YamlHasKey(pairs, key) == \E i \in 1..Len(pairs) : pairs[i][1] = key

LoadPartialDocument(content, path, keys) ==
    CASE Codec(path) = "json" ->
            IF content.kind # "json" THEN [thrown |-> LoadFailed, pairs |-> <<>>]
            ELSE IF content.doc.t = "object"
            THEN LET ks == KeepKeys(keys, DOMAIN content.doc.v)
                 IN [thrown |-> NoError,
                     pairs |-> [i \in 1..Len(ks) |-> <<ks[i], content.doc.v[ks[i]]>>]]
            ELSE [thrown |-> NoError, pairs |-> <<>>]
      [] Codec(path) = "yaml" ->
            IF content.kind = "json" THEN [thrown |-> LoadFailed, pairs |-> <<>>]
            ELSE IF content.kind = "malformed" THEN [thrown |-> LoadFailed, pairs |-> <<>>]
            ELSE IF content.kind = "yaml" /\ content.doc.type = "Map"
            THEN LET ps == content.doc.v
                     ks == KeepKeys(keys, {ps[i][1] : i \in 1..Len(ps)})
                     n == FirstFailure([i \in 1..Len(ks) |-> <<ks[i], YamlLookup(ps, ks[i])>>])
                 IN [thrown |-> IF n > Len(ks) THEN NoError ELSE LoadFailed,
                     pairs |-> [i \in 1..(n - 1) |->
                                   <<ks[i], yaml_to_json(YamlLookup(ps, ks[i]))>>]]
            ELSE [thrown |-> NoError, pairs |-> <<>>]
      [] OTHER -> [thrown |-> LoadFailed, pairs |-> <<>>]

load_partial_from_file(cm, files, path, keys) ==
    IF ~CanOpenForRead(files, path)
    THEN [config_map |-> cm, cerr |-> OpenReadFailed]
    ELSE LET d == LoadPartialDocument(files[path], path, keys)
         IN [config_map |-> MergePairs(cm, d.pairs),
             cerr |-> IF d.thrown = NoError THEN "" ELSE d.thrown]

(***************************************************************************)
(* SpecFile: the save / clear() / load scenario on a store that holds a    *)
(* map drawn from ScenarioMaps.                                            *)
(***************************************************************************)
V1 == <<"1", ".", "0", ".", "0">>
V2 == <<"2", ".", "0">>

Versions == {V1, V2}

\* The value of the repository's tests:
\* {"key1": "value1", "key2": 42, "key3": {"nestedKey": "nestedValue"}}
Complex ==
    JObj([k \in {"key1", "key2", "key3"} |->
            CASE k = "key1" -> JStr(<<"v", "1">>)
              [] k = "key2" -> JInt(42)
              [] k = "key3" -> JObj([n \in {"nestedKey"} |-> JStr(<<"n", "v">>)])])

ScenarioValues ==
    { JNull, JBool(TRUE), JInt(42), JInt64(1, 42), JFloat(15, 1), JFloat(2, 0),
      JStr(<<"a">>), JStr(<<"t", "r", "u", "e">>), JStr(<<"4", "2">>),
      JArr(<<>>), JArr(<<JInt(42), JStr(<<"a">>)>>), JObj(EmptyMap), Complex }

\* Maps over the keys "name" and "complex", with or without a key "version".
ScenarioMaps ==
    { m \in UNION { [ks -> ScenarioValues] : ks \in SUBSET {"name", "complex"} } : TRUE }
    \cup { Put(m, "version", JInt(42)) :
             m \in UNION { [ks -> ScenarioValues] : ks \in SUBSET {"name"} } }

ScenarioPaths == {PathJson, PathYaml, PathTxt, PathNoDir}

ScenarioKeyLists == { <<"name">>, <<"complex">>, <<"name", "complex">> }


InitFile ==
    /\ config_map \in ScenarioMaps
    /\ saved = config_map
    /\ script = [NoScript EXCEPT !.at = "start"]
    /\ change_listeners_ = <<>>
    /\ version_ = V0
    /\ env_overrides_ = [k \in {} |-> <<>>]
    /\ mutex_ = 0
    /\ fs = NoFiles
    /\ calls = <<>>
    /\ last = NoCall
    /\ pc = Idle
    /\ frame = NoFrames
    /\ NoRegistry

SaveToFile(path, version) ==
    LET r == save_to_file(config_map, fs, path, version)
    IN /\ script.at = "start"
       /\ fs' = r.fs
       /\ calls' = <<>>
       /\ last' = FileCall("save_to_file", path, version, <<>>, r.cerr)
       /\ script' = [at |-> "saved", kind |-> "full", path |-> path, keys |-> <<>>]
       /\ UNCHANGED << regvars, config_map, change_listeners_, version_, env_overrides_, mutex_,
                       pc, frame, saved >>

SavePartialToFile(path, keys) ==
    LET r == save_partial_to_file(config_map, fs, path, keys)
    IN /\ script.at = "start"
       /\ fs' = r.fs
       /\ calls' = <<>>
       /\ last' = FileCall("save_partial_to_file", path, <<>>, keys, r.cerr)
       /\ script' = [at |-> "saved", kind |-> "partial", path |-> path, keys |-> keys]
       /\ UNCHANGED << regvars, config_map, change_listeners_, version_, env_overrides_, mutex_,
                       pc, frame, saved >>

ClearAfterSave ==
    /\ script.at = "saved"
    /\ mutex_ = 0
    /\ config_map' = clear(config_map)
    /\ calls' = <<>>
    /\ last' = Call("clear", NoKey, Nothing, Nothing, NoError, "")
    /\ script' = [script EXCEPT !.at = "cleared"]
    /\ UNCHANGED << regvars, change_listeners_, version_, env_overrides_, mutex_, fs, pc, frame,
                    saved >>

LoadFromFile(version) ==
    LET r == load_from_file(config_map, version_, fs, script.path, version)
    IN /\ script.at = "cleared"
       /\ script.kind = "full"
       /\ config_map' = r.config_map
       /\ version_' = r.version_
       /\ calls' = <<>>
       /\ last' = FileCall("load_from_file", script.path, version, <<>>, r.cerr)
       /\ script' = [script EXCEPT !.at = "loaded"]
       /\ UNCHANGED << regvars, change_listeners_, env_overrides_, mutex_, fs, pc, frame, saved >>

LoadPartialFromFile ==
    LET r == load_partial_from_file(config_map, fs, script.path, script.keys)
    IN /\ script.at = "cleared"
       /\ script.kind = "partial"
       /\ config_map' = r.config_map
       /\ calls' = <<>>
       /\ last' = FileCall("load_partial_from_file", script.path, <<>>, script.keys, r.cerr)
       /\ script' = [script EXCEPT !.at = "loaded"]
       /\ UNCHANGED << regvars, change_listeners_, version_, env_overrides_, mutex_, fs, pc, frame,
                       saved >>

NextFile ==
    \/ \E p \in ScenarioPaths, v \in Versions : SaveToFile(p, v)
    \/ \E p \in ScenarioPaths, ks \in ScenarioKeyLists : SavePartialToFile(p, ks)
    \/ ClearAfterSave
    \/ \E v \in Versions : LoadFromFile(v)
    \/ LoadPartialFromFile

SpecFile == InitFile /\ [][NextFile]_vars

\* C8 (as claimed): JSON round trip: after save_to_file on a .json path,
\* clear() and load_from_file on that path, the store's map equals the map
\* that was saved: the same keys, the same value for every key.
C8_JsonRoundTrip ==
    (script.at = "loaded" /\ script.kind = "full" /\ Codec(script.path) = "json"
       /\ CanOpenForWrite(script.path))
    => config_map = saved

\* C9 (as claimed): YAML round trip: after save_to_file on a .yaml/.yml path,
\* clear() and load_from_file on that path, the store's map equals the map
\* that was saved, every value with its original type.
C9_YamlRoundTrip ==
    (script.at = "loaded" /\ script.kind = "full" /\ Codec(script.path) = "yaml")
    => config_map = saved

\* C10 (as claimed): partial fidelity: for a store that holds k, after
\* save_partial_to_file(path, {k}), clear() and load_partial_from_file(path,
\* {k}) on a .json or .yaml/.yml path, get(k) is the original value and no
\* other key is present.
C10_PartialFidelity ==
    (/\ script.at = "loaded" /\ script.kind = "partial"
     /\ Codec(script.path) \in {"json", "yaml"} /\ CanOpenForWrite(script.path)
     /\ Len(script.keys) = 1 /\ script.keys[1] \in DOMAIN saved)
    => /\ DOMAIN config_map = {script.keys[1]}
       /\ get(config_map, script.keys[1]).ret = saved[script.keys[1]]

(***************************************************************************)
(* Claims checked under Spec.                                              *)
(***************************************************************************)
SameElsewhere(before, after, key) ==
    \A k \in (DOMAIN before \cup DOMAIN after) \ {key} :
        k \in DOMAIN before /\ k \in DOMAIN after /\ after[k] = before[k]

\* C1: a set(k, v) that returns has k non-empty, leaves get(k) = v and
\* exists(k) true, and keeps every other key as it was; get and exists leave
\* the map alone, and get(k) of a present key returns the value the map holds.
C1_SetThenGet ==
    [][ /\ (last'.op = "set" /\ last'.thrown = NoError) =>
            /\ last'.key # ""
            /\ get(config_map', last'.key) = [ret |-> last'.value, thrown |-> NoError]
            /\ exists(config_map', last'.key)
            /\ SameElsewhere(config_map, config_map', last'.key)
        /\ (last'.op \in {"get", "exists"}) => config_map' = config_map
        /\ (last'.op = "get" /\ last'.key \in DOMAIN config_map) =>
            /\ last'.thrown = NoError
            /\ last'.ret = config_map[last'.key]
        /\ (last'.op = "exists" /\ last'.key \in DOMAIN config_map) =>
            last'.ret = CBool(TRUE)
      ]_vars

\* C1 witness: set("example", <string>) returned while the store holds "name".
C1_Witness ==
    /\ last.op = "set" /\ last.thrown = NoError
    /\ last.key = "example" /\ is_string(last.value)
    /\ "name" \in DOMAIN config_map

\* C2: a successful set(k, v) calls each registered listener exactly once, in
\* registration order, with (k, v); registration appends and nothing else
\* changes the listener list.
C2_ListenersOncePerSet ==
    [][ /\ (last'.op = "set" /\ last'.thrown = NoError) =>
            /\ change_listeners_' = change_listeners_
            /\ calls' = [i \in 1..Len(change_listeners_) |->
                            <<change_listeners_[i], last'.key, last'.value>>]
        /\ (last'.op = "add_change_listener") =>
            /\ Len(change_listeners_') = Len(change_listeners_) + 1
            /\ SubSeq(change_listeners_', 1, Len(change_listeners_)) = change_listeners_
        /\ (last'.op \notin {"set", "add_change_listener"}) =>
            change_listeners_' = change_listeners_
      ]_vars

\* C2 witness: a successful set called two different listeners.
C2_Witness ==
    /\ last.op = "set" /\ last.thrown = NoError
    /\ Len(calls) = 2 /\ calls[1][1] # calls[2][1]

\* C5: get(k) of an absent key throws the unknown-key error, returns no value,
\* and leaves map, listeners and version as they were; exists(k) of an absent
\* key returns false and changes nothing.
C5_GetAbsentFails ==
    [][ /\ (last'.op = "get" /\ last'.key \notin DOMAIN config_map) =>
            /\ last'.thrown = KeyNotFound
            /\ last'.ret = Nothing
            /\ UNCHANGED << config_map, change_listeners_, version_ >>
        /\ (last'.op = "exists" /\ last'.key \notin DOMAIN config_map) =>
            /\ last'.ret = CBool(FALSE)
            /\ last'.thrown = NoError
            /\ UNCHANGED << config_map, change_listeners_, version_ >>
      ]_vars

\* C5 witness: get of an absent key failed on a store that holds another key.
C5_Witness ==
    /\ last.op = "get" /\ last.thrown = KeyNotFound
    /\ last.key \notin DOMAIN config_map
    /\ DOMAIN config_map # {}

\* C6 (as claimed): remove(k) of a present key leaves k absent and every other
\* key unchanged; remove(k) of an absent key fails to its caller with the
\* error get reports and leaves the store unchanged.
C6_RemoveAbsentFails ==
    [][ (last'.op = "remove") =>
            IF last'.key \in DOMAIN config_map
            THEN /\ ~exists(config_map', last'.key)
                 /\ SameElsewhere(config_map, config_map', last'.key)
                 /\ last'.thrown = NoError
            ELSE /\ last'.thrown = get(config_map, last'.key).thrown
                 /\ config_map' = config_map
      ]_vars

(***************************************************************************)
(* Config::load_from_env: the override pass and the import pass.           *)
(***************************************************************************)
\* The process environment, one entry per element: the name as one token,
\* then the characters that follow it (the repository's tests set "name").
\* The last entry has no '='.
environ ==
    << <<"name", "=", "e">>, <<"HOME", "=", "h", "=", "x">>, <<"BARE">> >>

\* env_entry.find('='): the first '=', 0 for npos.
FindEq(entry) ==
    IF \E i \in 1..Len(entry) : entry[i] = "="
    THEN CHOOSE i \in 1..Len(entry) : entry[i] = "=" /\ \A k \in 1..(i - 1) : entry[k] # "="
    ELSE 0

\* env_entry.substr(0, pos)
EntryName(entry) == IF FindEq(entry) = 1 THEN "" ELSE entry[1]

\* env_entry.substr(pos + 1)
EntryValue(entry) == SubSeq(entry, FindEq(entry) + 1, Len(entry))

\* The entries of the environment block that hold an '='.
EnvEntries == {i \in 1..Len(environ) : FindEq(environ[i]) > 0}

\* std::getenv: the value of the first entry with that name.
Environ ==
    [n \in {EntryName(environ[i]) : i \in EnvEntries} |->
        EntryValue(environ[CHOOSE i \in EnvEntries :
                             /\ EntryName(environ[i]) = n
                             /\ \A k \in EnvEntries : EntryName(environ[k]) = n => i <= k])]

\* std::getenv(key) is non-null
HasEnv(key) == key \in DOMAIN Environ

\* The override pass without its env_overrides_[key] = env_val.
EnvOverrideUnrecorded(cm, overrides) ==
    [config_map |-> [k \in DOMAIN cm |-> IF HasEnv(k) THEN JStr(Environ[k]) ELSE cm[k]],
     env_overrides_ |-> overrides]

\* for (key : config_map) if (getenv(key)) { config_map[key] = env; env_overrides_[key] = env; }
EnvOverride(cm, overrides) ==
    [config_map |-> [k \in DOMAIN cm |-> IF HasEnv(k) THEN JStr(Environ[k]) ELSE cm[k]],
     env_overrides_ |-> [k \in DOMAIN overrides \cup {x \in DOMAIN cm : HasEnv(x)} |->
                            IF k \in DOMAIN cm /\ HasEnv(k) THEN Environ[k] ELSE overrides[k]]]

\* The (NAME, VALUE) pairs of the entries from the i-th on, in block order.
RECURSIVE EnvPairs(_)
EnvPairs(i) ==
    IF i > Len(environ) THEN <<>>
    ELSE (IF FindEq(environ[i]) > 0
          THEN << <<EntryName(environ[i]), JStr(EntryValue(environ[i]))>> >>
          ELSE <<>>) \o EnvPairs(i + 1)

\* An import pass that splits each entry at its last '='.
EnvImportSplitLast(cm) ==
    MergePairs(cm, [i \in 1..Len(EnvPairs(1)) |->
                      <<EnvPairs(1)[i][1],
                        JStr(<<EnvPairs(1)[i][2].v[Len(EnvPairs(1)[i][2].v)]>>)>>])

\* for (env : environ) config_map[NAME] = VALUE
EnvImport(cm) == MergePairs(cm, EnvPairs(1))

load_from_env(cm, overrides) ==
    LET o == EnvOverride(cm, overrides)
    IN [config_map |-> EnvImport(o.config_map), env_overrides_ |-> o.env_overrides_]

(***************************************************************************)
(* SpecConc: two threads on one store, each call split at the points where *)
(* another thread can run: taking mutex_, the body under the lock, and, in *)
(* the file loads (which take no lock), each assignment to config_map.     *)
(* Thread 1 calls the writing operations, thread 2 the reading ones.       *)
(***************************************************************************)
ConcFile ==
    JsonText(JObj([k \in {"name", "example"} |-> JStr(<<"b">>)]))

ConcFiles == [p \in {PathJson} |-> ConcFile]

LockedOps ==
    {"get", "exists", "get_all", "set", "load_from_env", "update_multiple", "inspect",
     "backup_to_file"}
ReadOps == {"get", "exists", "get_all"}
FileLoadOps == {"load_from_file", "load_partial_from_file"}
LoadOps == FileLoadOps \cup {"load_from_env"}

ReadCalls ==
    { [NoFrame EXCEPT !.op = "get", !.key = "name"],
      [NoFrame EXCEPT !.op = "exists", !.key = "example"],
      [NoFrame EXCEPT !.op = "get_all"] }

WriteCalls ==
    { [NoFrame EXCEPT !.op = "set", !.key = "name", !.value = JStr(<<"a">>)],
      [NoFrame EXCEPT !.op = "set", !.key = "example", !.value = JStr(<<"a">>)],
      [NoFrame EXCEPT !.op = "set", !.key = "example", !.value = JInt(42)],
      [NoFrame EXCEPT !.op = "set", !.key = "", !.value = JStr(<<"a">>)],
      [NoFrame EXCEPT !.op = "load_from_env"],
      [NoFrame EXCEPT !.op = "load_from_file", !.path = PathJson, !.version = V1],
      [NoFrame EXCEPT !.op = "load_partial_from_file", !.path = PathJson,
                      !.keys = <<"name", "example">>] }

ConcCalls(t) == IF t = 1 THEN WriteCalls ELSE ReadCalls

InitConc ==
    /\ config_map = EmptyMap
    /\ change_listeners_ \in {<<>>, <<"l1">>}
    /\ version_ = V0
    /\ env_overrides_ = [k \in {} |-> <<>>]
    /\ mutex_ = 0
    /\ fs = ConcFiles
    /\ calls = <<>>
    /\ last = NoCall
    /\ pc = Idle
    /\ frame = NoFrames
    /\ script = NoScript
    /\ saved = EmptyMap
    /\ NoRegistry

\* The next step of thread t reads or writes config_map or version_.
InAccess(t) == pc[t] \in {"body", "env_import", "merge"}

InLoad(t) == frame[t].op \in LoadOps /\ pc[t] # "idle"

\* What a reading call returns on map cm.
Observe(f, cm) ==
    CASE f.op = "get" -> get(cm, f.key)
      [] f.op = "exists" -> [ret |-> CBool(exists(cm, f.key)), thrown |-> NoError]
      [] f.op = "get_all" -> [ret |-> MapCopy(cm), thrown |-> NoError]

Return(t) ==
    /\ pc' = [pc EXCEPT ![t] = "idle"]
    /\ frame' = [frame EXCEPT ![t] = NoFrame]

\* A lock_guard whose destructor leaves the mutex locked.
UnlockNever(t) == mutex_' = mutex_

Unlock(t) == mutex_' = 0

\* Thread t calls c.
Invoke(t, c) ==
    /\ pc[t] = "idle"
    /\ pc' = [pc EXCEPT ![t] = IF c.op \in LockedOps THEN "lock" ELSE "open"]
    /\ frame' = [frame EXCEPT ![t] =
                    IF c.op \in LoadOps
                    THEN [c EXCEPT !.before = config_map, !.after = config_map]
                    ELSE c]
    /\ UNCHANGED << regvars, config_map, change_listeners_, version_, env_overrides_, mutex_, fs,
                    calls, last, script, saved >>

\* std::lock_guard<std::mutex> lock(mutex_)
Acquire(t) ==
    /\ pc[t] = "lock"
    /\ mutex_ = 0
    /\ mutex_' = t
    /\ pc' = [pc EXCEPT ![t] = "body"]
    /\ UNCHANGED << regvars, config_map, change_listeners_, version_, env_overrides_, fs, calls,
                    last, frame, script, saved >>

ReadBody(t) ==
    LET r == Observe(frame[t], config_map)
    IN /\ pc[t] = "body"
       /\ frame[t].op \in ReadOps
       /\ calls' = <<>>
       /\ last' = Call(frame[t].op, frame[t].key, Nothing, r.ret, r.thrown, "")
       /\ Unlock(t)
       /\ Return(t)
       /\ UNCHANGED << regvars, config_map, change_listeners_, version_, env_overrides_, fs,
                       script, saved >>

SetBody(t) ==
    LET r == set(config_map, change_listeners_, frame[t].key, frame[t].value)
    IN /\ pc[t] = "body"
       /\ frame[t].op = "set"
       /\ config_map' = r.config_map
       /\ calls' = r.calls
       /\ last' = Call("set", frame[t].key, frame[t].value, Nothing, r.thrown, "")
       /\ Unlock(t)
       /\ Return(t)
       /\ UNCHANGED << regvars, change_listeners_, version_, env_overrides_, fs, script, saved >>

EnvOverrideStep(t) ==
    LET o == EnvOverride(config_map, env_overrides_)
    IN /\ pc[t] = "body"
       /\ frame[t].op = "load_from_env"
       /\ config_map' = o.config_map
       /\ env_overrides_' = o.env_overrides_
       /\ pc' = [pc EXCEPT ![t] = "env_import"]
       /\ frame' = [frame EXCEPT
                      ![t].after = load_from_env(config_map, env_overrides_).config_map]
       /\ UNCHANGED << regvars, change_listeners_, version_, mutex_, fs, calls, last, script,
                       saved >>

EnvImportStep(t) ==
    /\ pc[t] = "env_import"
    /\ config_map' = EnvImport(config_map)
    /\ calls' = <<>>
    /\ last' = Call("load_from_env", NoKey, Nothing, Nothing, NoError, "")
    /\ Unlock(t)
    /\ Return(t)
    /\ UNCHANGED << regvars, change_listeners_, version_, env_overrides_, fs, script, saved >>

\* The pairs a file load will assign, or the error that ends it.
ConcDocument(f) ==
    IF f.op = "load_from_file" THEN LoadDocument(fs[f.path], f.path)
    ELSE LoadPartialDocument(fs[f.path], f.path, f.keys)

\* The stream is opened and the document parsed: no lock is taken.  (The
\* documents of ConcFiles convert as a whole: a failure precedes every
\* assignment.)
LoadOpen(t) ==
    /\ pc[t] = "open"
    /\ frame[t].op \in FileLoadOps
    /\ IF ~CanOpenForRead(fs, frame[t].path)
       THEN /\ last' = FileCall(frame[t].op, frame[t].path, frame[t].version,
                                frame[t].keys, OpenReadFailed)
            /\ calls' = <<>>
            /\ Return(t)
       ELSE LET d == ConcDocument(frame[t])
            IN IF d.thrown # NoError
               THEN /\ last' = FileCall(frame[t].op, frame[t].path, frame[t].version,
                                        frame[t].keys, d.thrown)
                    /\ calls' = <<>>
                    /\ Return(t)
               ELSE /\ pc' = [pc EXCEPT ![t] = "merge"]
                    /\ frame' = [frame EXCEPT
                                   ![t].pending = d.pairs,
                                   ![t].after = MergePairs(frame[t].before, d.pairs)]
                    /\ UNCHANGED << regvars, calls, last >>
    /\ UNCHANGED << regvars, config_map, change_listeners_, version_, env_overrides_, mutex_, fs,
                    script, saved >>

\* config_map[key] = value for the next pair of the document.
LoadMerge(t) ==
    /\ pc[t] = "merge"
    /\ frame[t].pending # <<>>
    /\ config_map' = Put(config_map, frame[t].pending[1][1], frame[t].pending[1][2])
    /\ frame' = [frame EXCEPT ![t].pending = Tail(@)]
    /\ UNCHANGED << regvars, change_listeners_, version_, env_overrides_, mutex_, fs, calls, last,
                    pc, script, saved >>

\* The loop is over: load_from_file records the version; both return.
LoadFinish(t) ==
    /\ pc[t] = "merge"
    /\ frame[t].pending = <<>>
    /\ version_' = IF frame[t].op = "load_from_file" THEN frame[t].version ELSE version_
    /\ calls' = <<>>
    /\ last' = FileCall(frame[t].op, frame[t].path, frame[t].version, frame[t].keys, "")
    /\ Return(t)
    /\ UNCHANGED << regvars, config_map, change_listeners_, env_overrides_, mutex_, fs, script,
                    saved >>

\* An unlocked assignment to config_map while another thread is inside an
\* access of it is a data race: besides the outcomes above, the process may
\* end there.
Crash(t) ==
    /\ pc[t] = "merge"
    /\ frame[t].pending # <<>>
    /\ \E u \in Threads \ {t} : InAccess(u)
    /\ pc' = [u \in Threads |-> "crashed"]
    /\ UNCHANGED << regvars, config_map, change_listeners_, version_, env_overrides_, mutex_, fs,
                    calls, last, frame, script, saved >>

NextConc ==
    \E t \in Threads :
        \/ \E c \in ConcCalls(t) : Invoke(t, c)
        \/ Acquire(t)
        \/ ReadBody(t)
        \/ SetBody(t)
        \/ EnvOverrideStep(t)
        \/ EnvImportStep(t)
        \/ LoadOpen(t)
        \/ LoadMerge(t)
        \/ LoadFinish(t)
        \/ Crash(t)

SpecConc == InitConc /\ [][NextConc]_vars

(***************************************************************************)
(* Claims checked under SpecConc.                                          *)
(***************************************************************************)
\* C3 (as claimed): a thread inside an access of config_map, change_listeners_
\* or version_ holds the store's mutex, so no two threads are inside such
\* accesses at once.
C3_AccessUnderLock ==
    /\ \A t \in Threads : InAccess(t) => mutex_ = t
    /\ \A t, u \in Threads : (t # u) => ~(InAccess(t) /\ InAccess(u))

\* C4 (as claimed): a get, exists or get_all that runs while another thread is
\* inside a load returns what it would return on the map as it was before that
\* load or on the map that load produces, never on a map with only some of the
\* load's keys assigned.
C4_LoadSeenWhole ==
    [][ \A t, u \in Threads :
          (/\ t # u
           /\ pc[t] = "body" /\ frame[t].op \in ReadOps /\ pc'[t] = "idle"
           /\ InLoad(u))
          => [ret |-> last'.ret, thrown |-> last'.thrown]
                \in { Observe(frame[t], frame[u].before),
                      Observe(frame[t], frame[u].after) }
      ]_vars

RejectedSet(f) == f.key = "" \/ (f.key = "example" /\ ~is_string(f.value))

\* C7: a set with an empty key, or with key "example" and a value that is not
\* a string, throws to its caller, leaves map, listener list and version
\* unchanged, calls no listener and ends with the mutex released.
C7_RejectedSet ==
    [][ \A t \in Threads :
          (/\ pc[t] = "body" /\ frame[t].op = "set" /\ RejectedSet(frame[t])
           /\ pc'[t] = "idle")
          => /\ last'.op = "set"
             /\ last'.thrown = IF frame[t].key = "" THEN InvalidKey ELSE InvalidValue
             /\ UNCHANGED << config_map, change_listeners_, version_ >>
             /\ calls' = <<>>
             /\ mutex_' = 0
      ]_vars

\* C7 witness: set("example", 42) was rejected on a store that holds a key and
\* a listener; the mutex is free and the other thread is about to take it.
C7_Witness ==
    /\ last.op = "set" /\ last.thrown = InvalidValue
    /\ change_listeners_ # <<>>
    /\ DOMAIN config_map # {}
    /\ mutex_ = 0
    /\ \E t \in Threads : pc[t] = "lock"

(***************************************************************************)
(* SpecOps: one thread calling the loads, load_from_env and validate on a  *)
(* store it also sets, removes from and clears, with files on disk that    *)
(* the program did not write.                                              *)
(***************************************************************************)
PathBad == <<"m", ".", "j", "s", "o", "n">>
PathYml == <<"c", ".", "y", "m", "l">>
\* A file named json, in the working directory: no '.' in its path.
PathBare == <<"j", "s", "o", "n">>

\* c.json: a JSON object with two keys.  c.yaml: a YAML map whose second
\* value holds a key that is a sequence.  c.yml: a YAML map of two scalars.
\* c.txt: a file with an unsupported extension.  m.json: text that is not
\* JSON.  json: a JSON object.  d/c.json does not exist.
ForeignFiles ==
    [p \in {PathJson, PathYaml, PathYml, PathTxt, PathBad, PathBare} |->
        CASE p = PathJson -> ConcFile
          [] p = PathYaml ->
                YamlText(YMap(<< <<"name", YScalar(<<"b">>)>>,
                                 <<"example", YMap(<< <<ComplexKey, YNull>> >>)>> >>))
          [] p = PathYml ->
                YamlText(YMap(<< <<"example", YScalar(<<"4", "2">>)>>,
                                 <<"name", YScalar(<<"b">>)>> >>))
          [] p = PathTxt -> ConcFile
          [] p = PathBad -> [kind |-> "malformed", doc |-> <<>>]
          [] p = PathBare -> ConcFile]

LoadPaths == {PathJson, PathYaml, PathYml, PathTxt, PathBad, PathBare, PathNoDir}

LoadKeyLists == { <<"name", "example">>, <<"example">> }

\* The listener calls made by a loop of direct assignments to config_map
\* (the loads, load_from_env): set is not called, so there are none.
AssignCallsAsSet(listeners, before, after) ==
    LET ks == SortedKeys({k \in DOMAIN after : k \notin DOMAIN before \/ before[k] # after[k]})
    IN IF ks = <<>> THEN <<>> ELSE FanOut(listeners, ks[1], after[ks[1]]).calls

AssignCalls(listeners, before, after) == <<>>

\* values.push_back(get(key)) with operator[] semantics: null for an absent key.
InspectValueDefault(cm, key) == IF key \in DOMAIN cm THEN cm[key] ELSE JNull

\* try { values.push_back(get(key)); } catch (invalid_argument) { push_back(json::object()); }
InspectValue(cm, key) ==
    IF get(cm, key).thrown = NoError THEN get(cm, key).ret ELSE JObj(EmptyMap)

\* std::move(config_map) returned: the caller gets the map, the store is
\* left empty.
GetAllMovesMap(cm) == [ret |-> MapCopy(cm), config_map |-> EmptyMap]

\* return config_map: the caller gets a copy, the store keeps its map.
get_all(cm) == [ret |-> MapCopy(cm), config_map |-> cm]

\* Config::inspect run with no other thread: one element per key, in order.
inspect(cm, keys) == [i \in 1..Len(keys) |-> InspectValue(cm, keys[i])]

InspectKeyLists == { <<"name", "example">>, <<"example", "name", "example">> }

\* The listener the caller registers next: "l1" first, then "l2".
NextListener(listeners) == IF listeners = <<>> THEN "l1" ELSE "l2"

\* Validators: the predicates the callers pass, by name.
ApplyPredicate(p, value) ==
    CASE p = "is_string" -> is_string(value)
      [] p = "is_number" -> value.t \in {"number_integer", "number_float"}

ValidatorMaps ==
    { [k \in {"name"} |-> "is_string"],
      [k \in {"name"} |-> "is_number"],
      [k \in {"name", "example"} |-> "is_string"],
      [k \in {} |-> "is_string"] }

ValidateFailed == "Error in validate"

\* Every key of validators is in the map and its predicate accepts the value.
Valid(cm, validators) ==
    \A k \in DOMAIN validators : k \in DOMAIN cm /\ ApplyPredicate(validators[k], cm[k])

\* Config::validate: the throw is caught inside; the caller gets void.
validate(cm, validators) ==
    [thrown |-> NoError, cerr |-> IF Valid(cm, validators) THEN "" ELSE ValidateFailed]

InitOps ==
    /\ config_map = EmptyMap
    /\ change_listeners_ = <<>>
    /\ version_ = V0
    /\ env_overrides_ = [k \in {} |-> <<>>]
    /\ mutex_ = 0
    /\ fs = ForeignFiles
    /\ calls = <<>>
    /\ last = NoCall
    /\ pc = Idle
    /\ frame = NoFrames
    /\ script = NoScript
    /\ saved = EmptyMap
    /\ NoRegistry

LoadFile(path, version) ==
    LET r == load_from_file(config_map, version_, fs, path, version)
    IN /\ config_map' = r.config_map
       /\ version_' = r.version_
       /\ calls' = AssignCalls(change_listeners_, config_map, r.config_map)
       /\ last' = FileCall("load_from_file", path, version, <<>>, r.cerr)
       /\ UNCHANGED << regvars, change_listeners_, env_overrides_, mutex_, fs, pc, frame, script,
                       saved >>

LoadPartial(path, keys) ==
    LET r == load_partial_from_file(config_map, fs, path, keys)
    IN /\ config_map' = r.config_map
       /\ calls' = AssignCalls(change_listeners_, config_map, r.config_map)
       /\ last' = FileCall("load_partial_from_file", path, <<>>, keys, r.cerr)
       /\ UNCHANGED << regvars, change_listeners_, version_, env_overrides_, mutex_, fs, pc, frame,
                       script, saved >>

LoadFromEnv ==
    LET r == load_from_env(config_map, env_overrides_)
    IN /\ mutex_ = 0
       /\ config_map' = r.config_map
       /\ env_overrides_' = r.env_overrides_
       /\ calls' = AssignCalls(change_listeners_, config_map, r.config_map)
       /\ last' = Call("load_from_env", NoKey, Nothing, Nothing, NoError, "")
       /\ UNCHANGED << regvars, change_listeners_, version_, mutex_, fs, pc, frame, script, saved >>

Validate(validators) ==
    LET r == validate(config_map, validators)
    IN /\ mutex_ = 0
       /\ calls' = <<>>
       /\ last' = Call("validate", NoKey, [t |-> "validators", v |-> validators], Nothing,
                       r.thrown, r.cerr)
       /\ UNCHANGED << regvars, config_map, change_listeners_, version_, env_overrides_, mutex_, fs,
                       pc, frame, script, saved >>

GetAll ==
    LET r == get_all(config_map)
    IN /\ mutex_ = 0
       /\ config_map' = r.config_map
       /\ calls' = <<>>
       /\ last' = Call("get_all", NoKey, Nothing, r.ret, NoError, "")
       /\ UNCHANGED << regvars, change_listeners_, version_, env_overrides_, mutex_, fs, pc, frame,
                       script, saved >>

\* The caller assigns to the map get_all returned to it.
ChangeCopy(key, value) ==
    /\ last.op = "get_all"
    /\ last' = [last EXCEPT !.op = "get_all, copy changed", !.ret.v = Put(@, key, value)]
    /\ UNCHANGED << regvars, config_map, change_listeners_, version_, env_overrides_, mutex_, fs,
                    calls, pc, frame, script, saved >>

Inspect(keys) ==
    /\ mutex_ = 0
    /\ calls' = <<>>
    /\ last' = [Call("inspect", NoKey, Nothing, [t |-> "list", v |-> inspect(config_map, keys)],
                     NoError, "") EXCEPT !.keys = keys]
    /\ UNCHANGED << regvars, config_map, change_listeners_, version_, env_overrides_, mutex_, fs,
                    pc, frame, script, saved >>

NextOps ==
    \/ \E k \in StoreKeys, v \in StoreValues : Set(k, v)
    \/ \E k \in StoreKeys : Remove(k)
    \/ Clear
    \/ \E l \in {NextListener(change_listeners_)} : AddChangeListener(l)
    \/ \E p \in LoadPaths, v \in Versions : LoadFile(p, v)
    \/ \E p \in LoadPaths, ks \in LoadKeyLists : LoadPartial(p, ks)
    \/ LoadFromEnv
    \/ \E vs \in ValidatorMaps : Validate(vs)
    \/ \E k \in StoreKeys : Get(k)
    \/ \E k \in StoreKeys : Exists(k)
    \/ GetAll
    \/ ChangeCopy("name", JInt(42))
    \/ \E ks \in InspectKeyLists : Inspect(ks)

SpecOps == InitOps /\ [][NextOps]_vars

(***************************************************************************)
(* Claims checked under SpecOps.                                           *)
(***************************************************************************)
\* C11 (as claimed): a load_from_file or load_partial_from_file that fails
\* (the file does not open, the extension is unsupported, the content is
\* malformed, or a node does not convert part-way through the document)
\* returns to its caller and leaves map and version as they were.
C11_FailedLoadChangesNothing ==
    [][ (last'.op \in {"load_from_file", "load_partial_from_file"} /\ last'.cerr # "")
          => /\ last'.thrown = NoError
             /\ config_map' = config_map
             /\ version_' = version_
      ]_vars

\* C12: after load_from_env, every key the store held that has a same-named
\* environment variable maps to that variable's value as a string, whatever
\* the type of the old value, and env_overrides_ records that string.
C12_EnvPrecedence ==
    [][ (last'.op = "load_from_env")
          => \A k \in DOMAIN config_map :
                HasEnv(k) =>
                    /\ get(config_map', k) = [ret |-> JStr(Environ[k]), thrown |-> NoError]
                    /\ k \in DOMAIN env_overrides_'
                    /\ env_overrides_'[k] = Environ[k]
      ]_vars

\* C12 witness: load_from_env ran on a store that held "name" and the
\* override is recorded.
C12_Witness ==
    /\ last.op = "load_from_env"
    /\ "name" \in DOMAIN env_overrides_
    /\ env_overrides_["name"] = <<"e">>
    /\ config_map["name"] = JStr(<<"e">>)

\* C13: after load_from_env, get(NAME) is the string VALUE for every
\* NAME=VALUE entry of the environment (VALUE is all that follows the first
\* '='), every key without a same-named variable keeps its value, and no key
\* is removed.
C13_EnvImport ==
    [][ (last'.op = "load_from_env")
          => /\ \A i \in 1..Len(environ) :
                    FindEq(environ[i]) > 0 =>
                        get(config_map', EntryName(environ[i]))
                            = [ret |-> JStr(EntryValue(environ[i])), thrown |-> NoError]
             /\ \A k \in DOMAIN config_map :
                    /\ k \in DOMAIN config_map'
                    /\ ~HasEnv(k) => config_map'[k] = config_map[k]
      ]_vars

\* C13 witness: load_from_env imported HOME=h=x into a store that holds
\* "example", a key with no variable of its name.
C13_Witness ==
    /\ last.op = "load_from_env"
    /\ "example" \in DOMAIN config_map
    /\ "HOME" \in DOMAIN config_map
    /\ config_map["HOME"] = JStr(<<"h", "=", "x">>)
    /\ "BARE" \notin DOMAIN config_map

\* C17: remove, clear, load_from_file, load_partial_from_file and
\* load_from_env call no listener, whatever they add, overwrite or delete; a
\* step that calls a listener is a set.
C17_OnlySetNotifies ==
    [][ /\ (last'.op \in {"remove", "clear", "load_from_file", "load_partial_from_file",
                          "load_from_env"}) => calls' = <<>>
        /\ (calls' # <<>>) => last'.op = "set"
      ]_vars

\* C17 witness: a load changed the map of a store that has a listener.
C17_Witness ==
    /\ last.op = "load_from_file" /\ last.cerr = ""
    /\ change_listeners_ # <<>>
    /\ "name" \in DOMAIN config_map /\ config_map["name"] = JStr(<<"b">>)
    /\ calls = <<>>

\* C19 (as claimed): validate reports ok exactly when every key of validators
\* is in the store and its predicate accepts the value, reports a failure to
\* its caller otherwise, and never changes the store.
C19_ValidateReports ==
    [][ (last'.op = "validate")
          => /\ (last'.thrown = NoError) <=> Valid(config_map, last'.value.v)
             /\ config_map' = config_map
      ]_vars

(***************************************************************************)
(* Claims about the reads, clear and the full load, checked under SpecOps. *)
(***************************************************************************)
\* C22: get_all returns the store's map as it is when called; get, exists,
\* get_all, inspect and validate leave map, listener list and version as
\* they were; a get_all or an inspect that follows the same call with nothing
\* in between returns the same result; assigning to the map get_all returned
\* leaves the store's map as it was.
C22_ReadsChangeNothing ==
    [][ /\ (last'.op \in {"get", "exists", "get_all", "inspect", "validate",
                          "get_all, copy changed"})
              => UNCHANGED << config_map, change_listeners_, version_ >>
        /\ (last'.op = "get_all") => last'.ret = MapCopy(config_map)
        /\ (last.op = "get_all" /\ last'.op = "get_all") => last'.ret = last.ret
        /\ (last.op = "inspect" /\ last'.op = "inspect" /\ last'.keys = last.keys)
              => last'.ret = last.ret
      ]_vars

\* C22 witness: the caller changed the copy get_all returned; the copy and
\* the map of the store, which has a listener and a version, now differ.
C22_Witness ==
    /\ last.op = "get_all, copy changed"
    /\ last.ret.v # config_map
    /\ exists(config_map, "name") /\ config_map["name"] = JStr(<<"a">>)
    /\ change_listeners_ # <<>>
    /\ version_ = V2

\* C23: clear leaves no key in the map and leaves listener list and version
\* as they were; a set that follows a clear calls every registered listener,
\* in registration order; no step removes a listener or changes the order
\* of the registered ones.
C23_ClearKeepsListeners ==
    [][ /\ (last'.op = "clear") =>
              /\ \A k \in StoreKeys \cup DOMAIN config_map : ~exists(config_map', k)
              /\ UNCHANGED << change_listeners_, version_ >>
        /\ (last.op = "clear" /\ last'.op = "set" /\ last'.thrown = NoError) =>
              calls' = [i \in 1..Len(change_listeners_) |->
                            <<change_listeners_[i], last'.key, last'.value>>]
        /\ Len(change_listeners_') >= Len(change_listeners_)
        /\ SubSeq(change_listeners_', 1, Len(change_listeners_)) = change_listeners_
      ]_vars

\* C23 witness: clear has emptied a store that has two listeners and a
\* version recorded by a load.
C23_Witness ==
    /\ last.op = "clear"
    /\ config_map = EmptyMap
    /\ change_listeners_ = <<"l1", "l2">>
    /\ version_ = V2

\* The top-level keys of a file's document and the values they carry.
TopLevel(content) ==
    IF content.kind = "json" /\ content.doc.t = "object" THEN content.doc.v
    ELSE IF content.kind = "yaml" /\ content.doc.type = "Map"
    THEN [k \in {content.doc.v[i][1] : i \in 1..Len(content.doc.v)} |->
             yaml_to_json(YamlLookup(content.doc.v, k))]
    ELSE EmptyMap

\* C24: after a load_from_file(path, version) that reports no error, every
\* top-level key of the file holds the file's value, every other key of the
\* store holds what it held, no other key exists, and version_ is the
\* version argument.
C24_LoadMergesFile ==
    [][ (last'.op = "load_from_file" /\ last'.cerr = "") =>
            LET top == TopLevel(fs[last'.path])
            IN /\ DOMAIN config_map' = DOMAIN config_map \cup DOMAIN top
               /\ \A k \in DOMAIN top : config_map'[k] = top[k]
               /\ \A k \in DOMAIN config_map \ DOMAIN top : config_map'[k] = config_map[k]
               /\ version_' = last'.version
      ]_vars

\* C24 witness: a load of c.yml into a store that held a key the file does
\* not have; the file's scalars are in the map as the values they convert to.
C24_Witness ==
    /\ last.op = "load_from_file" /\ last.cerr = "" /\ last.path = PathYml
    /\ last.version = V2 /\ version_ = V2
    /\ DOMAIN config_map = {"name", "example", "HOME", "LOGNAME"} \ {"LOGNAME"}
    /\ config_map["example"] = JInt(42)
    /\ config_map["name"] = JStr(<<"b">>)
    /\ config_map["HOME"] = JStr(<<"h", "=", "x">>)

\* The codec C29 names for a path: by the text after the last '.', and none
\* for a path without '.'.
ClaimedCodec(path) ==
    IF \A i \in 1..Len(path) : path[i] # "." THEN "unsupported"
    ELSE LET ext == SubSeq(path, FindLastOfDot(path) + 1, Len(path))
         IN IF ext = ExtJson THEN "json"
            ELSE IF ext \in {ExtYaml, ExtYml} THEN "yaml"
            ELSE "unsupported"

\* C29 (as claimed): a load on a path whose extension is neither json nor
\* yaml / yml, or that has no '.' at all, reports an error and leaves the map
\* as it was.
C29_ExtensionDispatch ==
    [][ (last'.op \in {"load_from_file", "load_partial_from_file"}
           /\ ClaimedCodec(last'.path) = "unsupported")
          => /\ last'.cerr # ""
             /\ config_map' = config_map
      ]_vars

(***************************************************************************)
(* SpecReg: two threads obtaining stores by name from Config::instance and *)
(* from the ConfigFactory functions built on it, and using the handles     *)
(* they were given.  Each lookup is split at its lock acquisitions, its    *)
(* find and its insertion.                                                 *)
(***************************************************************************)
MaxStores == 3

Names == {"default", "app"}

\* The name argument left out: const std::string &name = "default".
NoArg == "<omitted>"
NameArg(arg) == IF arg = NoArg THEN "default" ELSE arg

\* std::make_unique<Config>()
NewConfig ==
    [config_map |-> EmptyMap, change_listeners_ |-> <<>>, version_ |-> V0, mutex_ |-> 0,
     alive |-> TRUE]

RegOps == {"instance", "create_config", "create_thread_safe_config", "get_pooled_config"}

\* A factory function that guards itself with the registry's mutex.
OuterLockIsRegistry(op) == "instance"

\* The static mutex a factory function takes before it calls on.
OuterLockOf(op) == IF op = "create_thread_safe_config" THEN "thread_safe" ELSE "pool"

\* A lock_guard constructor that does not wait for the mutex.
CanLockAlways(ls, m) == TRUE

\* std::lock_guard<std::mutex> lock(mutex_) returns once the mutex is free.
CanLock(ls, m) == ls[m] = 0

\* A lookup that never finds the name.
FindInstanceNever(insts, name) == FALSE

\* instances.find(name) != instances.end()
FindInstance(insts, name) == name \in DOMAIN insts

ConfigRef(id) == [t |-> "Config", v |-> id]

\* One mutex for every Config (a static member): the one the store outside
\* the registry locks.
MutexOfShared(id) == mutex_

\* The holder of the mutex_ member of the Config object id, 0 when free.
MutexOf(id) == stores[id].mutex_

RegInvoke(t, op, arg) ==
    /\ pc[t] = "idle"
    /\ frame' = [frame EXCEPT ![t] = [NoFrame EXCEPT !.op = op, !.key = NameArg(arg)]]
    /\ pc' = [pc EXCEPT ![t] = IF op \in {"instance", "create_config"}
                                THEN "reg_lock" ELSE "outer_lock"]
    /\ UNCHANGED << regvars, config_map, change_listeners_, version_, env_overrides_,
                    mutex_, fs, calls, last, script, saved >>

\* create_thread_safe_config / get_pooled_config take their own static mutex.
OuterLock(t) ==
    /\ pc[t] = "outer_lock"
    /\ CanLock(locks, OuterLockOf(frame[t].op))
    /\ locks' = [locks EXCEPT ![OuterLockOf(frame[t].op)] = t]
    /\ pc' = [pc EXCEPT ![t] = IF frame[t].op = "get_pooled_config"
                                THEN "pool_find" ELSE "reg_lock"]
    /\ UNCHANGED << instances, stores, pool, handles, config_map, change_listeners_,
                    version_, env_overrides_, mutex_, fs, calls, last, frame, script, saved >>

\* if (pool.find(name) == pool.end()) pool[name] = create_config(name);
PoolFind(t) ==
    /\ pc[t] = "pool_find"
    /\ pc' = [pc EXCEPT ![t] = IF frame[t].key \in DOMAIN pool
                                THEN "outer_ret" ELSE "reg_lock"]
    /\ UNCHANGED << regvars, config_map, change_listeners_, version_, env_overrides_,
                    mutex_, fs, calls, last, frame, script, saved >>

\* Config::instance takes its static mutex.
RegLock(t) ==
    /\ pc[t] = "reg_lock"
    /\ CanLock(locks, "instance")
    /\ locks' = [locks EXCEPT !["instance"] = t]
    /\ pc' = [pc EXCEPT ![t] = "reg_find"]
    /\ UNCHANGED << instances, stores, pool, handles, config_map, change_listeners_,
                    version_, env_overrides_, mutex_, fs, calls, last, frame, script, saved >>

RegFind(t) ==
    /\ pc[t] = "reg_find"
    /\ pc' = [pc EXCEPT ![t] = IF FindInstance(instances, frame[t].key)
                                THEN "reg_ret" ELSE "reg_make"]
    /\ UNCHANGED << regvars, config_map, change_listeners_, version_, env_overrides_,
                    mutex_, fs, calls, last, frame, script, saved >>

\* instances[name] = std::make_unique<Config>(); a Config the name held
\* before is destroyed by the assignment.
RegMake(t) ==
    LET name == frame[t].key
        id == Cardinality(DOMAIN stores) + 1
    IN /\ pc[t] = "reg_make"
       /\ Cardinality(DOMAIN stores) < MaxStores
       /\ stores' = [i \in DOMAIN stores \cup {id} |->
                        IF i = id THEN NewConfig
                        ELSE IF name \in DOMAIN instances /\ instances[name] = i
                        THEN [stores[i] EXCEPT !.alive = FALSE]
                        ELSE stores[i]]
       /\ instances' = [n \in DOMAIN instances \cup {name} |->
                           IF n = name THEN id ELSE instances[n]]
       /\ pc' = [pc EXCEPT ![t] = "reg_ret"]
       /\ UNCHANGED << pool, locks, handles, config_map, change_listeners_, version_,
                       env_overrides_, mutex_, fs, calls, last, frame, script, saved >>

\* return *instances[name]; the lock_guard releases the registry mutex.
RegReturn(t) ==
    LET name == frame[t].key
        id == instances[name]
        op == frame[t].op
    IN /\ pc[t] = "reg_ret"
       /\ locks' = [locks EXCEPT !["instance"] = 0]
       /\ IF op \in {"instance", "create_config"}
          THEN /\ handles' = [handles EXCEPT ![t] =
                                 [name |-> name, id |-> id,
                                  block |-> IF op = "instance" THEN "ref" ELSE "own"]]
               /\ last' = Call(op, name, Nothing, ConfigRef(id), NoError, "")
               /\ calls' = <<>>
               /\ Return(t)
               /\ UNCHANGED pool
          ELSE /\ pool' = IF op = "get_pooled_config"
                          THEN [n \in DOMAIN pool \cup {name} |->
                                   IF n = name THEN id ELSE pool[n]]
                          ELSE pool
               /\ frame' = [frame EXCEPT ![t].pending = <<id>>]
               /\ pc' = [pc EXCEPT ![t] = "outer_ret"]
               /\ UNCHANGED << handles, last, calls >>
       /\ UNCHANGED << instances, stores, config_map, change_listeners_, version_,
                       env_overrides_, mutex_, fs, script, saved >>

\* return pool[name] / return shared_ptr(&instance); the factory mutex is
\* released.
OuterReturn(t) ==
    LET name == frame[t].key
        op == frame[t].op
        id == IF op = "get_pooled_config" THEN pool[name] ELSE frame[t].pending[1]
    IN /\ pc[t] = "outer_ret"
       /\ locks' = [locks EXCEPT ![OuterLockOf(op)] = 0]
       /\ handles' = [handles EXCEPT ![t] =
                         [name |-> name, id |-> id,
                          block |-> IF op = "get_pooled_config" THEN "pool" ELSE "own"]]
       /\ last' = Call(op, name, Nothing, ConfigRef(id), NoError, "")
       /\ calls' = <<>>
       /\ Return(t)
       /\ UNCHANGED << instances, stores, pool, config_map, change_listeners_, version_,
                       env_overrides_, mutex_, fs, script, saved >>

\* handle->set(key, value), from taking the store's own mutex_ to releasing it
HandleSet(t, key, value) ==
    LET id == handles[t].id
        r == set(stores[id].config_map, stores[id].change_listeners_, key, value)
    IN /\ pc[t] = "idle"
       /\ id \in DOMAIN stores /\ stores[id].alive
       /\ MutexOf(id) = 0
       /\ stores' = [stores EXCEPT ![id].config_map = r.config_map]
       /\ calls' = r.calls
       /\ last' = [Call("set", key, value, Nothing, r.thrown, "") EXCEPT !.handle = handles[t]]
       /\ UNCHANGED << instances, pool, locks, handles, config_map, change_listeners_,
                       version_, env_overrides_, mutex_, fs, pc, frame, script, saved >>

\* handle->get(key)
HandleGet(t, key) ==
    LET id == handles[t].id
        r == get(stores[id].config_map, key)
    IN /\ pc[t] = "idle"
       /\ id \in DOMAIN stores /\ stores[id].alive
       /\ MutexOf(id) = 0
       /\ calls' = <<>>
       /\ last' = [Call("get", key, Nothing, r.ret, r.thrown, "") EXCEPT !.handle = handles[t]]
       /\ UNCHANGED << regvars, config_map, change_listeners_, version_, env_overrides_,
                       mutex_, fs, pc, frame, script, saved >>

\* handle->add_change_listener(l)
HandleAddListener(t, l) ==
    LET id == handles[t].id
    IN /\ pc[t] = "idle"
       /\ id \in DOMAIN stores /\ stores[id].alive
       /\ MutexOf(id) = 0
       /\ stores[id].change_listeners_ = <<>>
       /\ stores' = [stores EXCEPT ![id].change_listeners_ =
                        add_change_listener(stores[id].change_listeners_, l)]
       /\ calls' = <<>>
       /\ last' = [Call("add_change_listener", NoKey, Nothing, Nothing, NoError, "")
                     EXCEPT !.handle = handles[t]]
       /\ UNCHANGED << instances, pool, locks, handles, config_map, change_listeners_,
                       version_, env_overrides_, mutex_, fs, pc, frame, script, saved >>

InitReg == InitOps

\* Thread 1 asks for the omitted name and for "app" and writes through its
\* handle; thread 2 asks for "default" and reads through its handle.
RegArgs(t) == IF t = 1 THEN {NoArg, "app"} ELSE {"default"}

NextReg ==
    \/ \E t \in Threads :
          \/ \E op \in RegOps, arg \in RegArgs(t) : RegInvoke(t, op, arg)
          \/ OuterLock(t)
          \/ PoolFind(t)
          \/ RegLock(t)
          \/ RegFind(t)
          \/ RegMake(t)
          \/ RegReturn(t)
          \/ OuterReturn(t)
    \/ HandleSet(1, "name", JStr(<<"a">>))
    \/ HandleAddListener(1, "l1")
    \/ HandleGet(2, "name")

SpecReg == InitReg /\ [][NextReg]_vars

(***************************************************************************)
(* Claims checked under SpecReg.                                           *)
(***************************************************************************)
\* C14: every handle obtained for name n (the omitted name is "default") is
\* the store registered under n, so a get through any handle for n returns
\* what the latest set through any handle for n stored; different names are
\* different stores, and a call through a handle changes that store only.
C14_RegistryIdentity ==
    [][ /\ \A t \in Threads :
              handles'[t].id # 0 =>
                  /\ handles'[t].name \in DOMAIN instances'
                  /\ instances'[handles'[t].name] = handles'[t].id
        /\ \A n, m \in DOMAIN instances' : (n # m) => instances'[n] # instances'[m]
        /\ (last' # last /\ last'.op = "get" /\ last'.handle.id # 0) =>
              [ret |-> last'.ret, thrown |-> last'.thrown]
                  = get(stores[instances[last'.handle.name]].config_map, last'.key)
        /\ (last' # last /\ last'.op = "set" /\ last'.handle.id # 0
              /\ last'.thrown = NoError) =>
              stores'[instances[last'.handle.name]].config_map[last'.key] = last'.value
        /\ \A i \in DOMAIN stores :
              (stores'[i] # stores[i]) => (last'.handle.id = i /\ last' # last)
      ]_vars

\* C14 witness: both threads hold the store named "default", obtained by
\* different functions; a get through one handle found the value set; the
\* store named "app" exists and holds nothing.
C14_Witness ==
    /\ handles[1].name = "default" /\ handles[2].name = "default"
    /\ handles[1].id # 0 /\ handles[1].id = handles[2].id
    /\ last.op = "get" /\ last.ret = JStr(<<"a">>) /\ last.handle = handles[2]
    /\ "app" \in DOMAIN instances
    /\ stores[instances["app"]].config_map = EmptyMap
    /\ stores[instances["default"]].change_listeners_ # <<>>

\* C15: whatever the interleaving of instance, create_thread_safe_config and
\* get_pooled_config calls, one store is made per name, every name of the
\* registry and of the pool maps to a store that has been made, and every
\* handle given out for a name is that store.
C15_OneStorePerName ==
    /\ Cardinality(DOMAIN stores) = Cardinality(DOMAIN instances)
    /\ \A n \in DOMAIN instances : instances[n] \in DOMAIN stores /\ stores[instances[n]].alive
    /\ \A n \in DOMAIN pool : n \in DOMAIN instances /\ pool[n] = instances[n]
    /\ \A t \in Threads :
          handles[t].id # 0 =>
              handles[t].name \in DOMAIN instances /\ handles[t].id = instances[handles[t].name]

\* C15 witness: a thread is about to make the store for a name while the
\* other thread, asking for the same name through another function, waits
\* for the registry mutex.
C15_Witness ==
    /\ pc[1] = "reg_make" /\ pc[2] = "reg_lock"
    /\ frame[1].key = frame[2].key
    /\ frame[1].op = "get_pooled_config" /\ frame[2].op = "create_thread_safe_config"
    /\ locks["instance"] = 1 /\ locks["thread_safe"] = 2

(***************************************************************************)
(* SpecFan: two threads on one store, with set split into its store and    *)
(* its listener calls, update_multiple into its lock and its calls of set, *)
(* and inspect into its unlock / get / lock rounds.  A call made while the *)
(* calling thread holds mutex_ starts by taking mutex_ like any other.     *)
(* Thread 2 also runs a file load, which takes no lock.                    *)
(***************************************************************************)
\* A listener that calls get on the store that notifies it.
ListenerReenters(l) == l = "reenter"

FanCalls(t) ==
    IF t = 1
    THEN { [NoFrame EXCEPT !.op = "set", !.key = "name", !.value = JStr(<<"a">>)],
           [NoFrame EXCEPT !.op = "set", !.key = "example", !.value = JInt(42)],
           [NoFrame EXCEPT !.op = "update_multiple",
                           !.pending = << <<"name", JStr(<<"a">>)>> >>],
           [NoFrame EXCEPT !.op = "update_multiple"],
           [NoFrame EXCEPT !.op = "backup_to_file", !.path = PathYaml],
           [NoFrame EXCEPT !.op = "backup_to_file", !.path = PathNoDir] }
    ELSE { [NoFrame EXCEPT !.op = "get", !.key = "name"],
           [NoFrame EXCEPT !.op = "inspect", !.keys = <<"name", "example">>],
           [NoFrame EXCEPT !.op = "inspect", !.keys = <<"name", "name">>],
           [NoFrame EXCEPT !.op = "load_partial_from_file", !.path = PathJson,
                           !.keys = <<"name">>] }

InitFan ==
    /\ config_map = EmptyMap
    /\ change_listeners_ \in {<<>>, <<"l1">>, <<"l1", "reenter">>, <<"l1", "thrower">>}
    /\ version_ = V0
    /\ env_overrides_ = [k \in {} |-> <<>>]
    /\ mutex_ = 0
    /\ fs = ConcFiles
    /\ calls = <<>>
    /\ last = NoCall
    /\ pc = Idle
    /\ frame = NoFrames
    /\ script = NoScript
    /\ saved = EmptyMap
    /\ NoRegistry

\* A call of op(key, value) made from inside the call in frame f.
NestedCall(f, op, key, value) ==
    [NoFrame EXCEPT !.op = op, !.key = key, !.value = value, !.caller = f.op]

\* set under the lock: the checks and config_map[key] = value.
SetStore(t) ==
    LET f == frame[t]
    IN /\ pc[t] = "body"
       /\ f.op = "set"
       /\ calls' = <<>>
       /\ IF RejectedSet(f)
          THEN /\ last' = Call("set", f.key, f.value, Nothing,
                               IF f.key = "" THEN InvalidKey ELSE InvalidValue, "")
               /\ Unlock(t)
               /\ Return(t)
               /\ UNCHANGED config_map
          ELSE /\ config_map' = Put(config_map, f.key, f.value)
               /\ pc' = [pc EXCEPT ![t] = "fanout"]
               /\ frame' = [frame EXCEPT ![t].pending = change_listeners_]
               /\ UNCHANGED << last, mutex_ >>
       /\ UNCHANGED << regvars, change_listeners_, version_, env_overrides_, fs, script,
                       saved >>

\* listener(key, value) for the next listener of the loop, mutex_ held.  A
\* listener that calls get starts a call on this thread.
FanOutStep(t) ==
    LET f == frame[t]
        l == Head(f.pending)
    IN /\ pc[t] = "fanout"
       /\ f.pending # <<>>
       /\ calls' = Append(calls, <<l, f.key, f.value>>)
       /\ IF ListenerThrows(l)
          THEN /\ last' = Call("set", f.key, f.value, Nothing, ListenerError, "")
               /\ Unlock(t)
               /\ Return(t)
          ELSE IF ListenerReenters(l)
          THEN /\ frame' = [frame EXCEPT ![t] = NestedCall(f, "get", f.key, Nothing)]
               /\ pc' = [pc EXCEPT ![t] = "lock"]
               /\ UNCHANGED << last, mutex_ >>
          ELSE /\ frame' = [frame EXCEPT ![t].pending = Tail(@)]
               /\ UNCHANGED << last, mutex_, pc >>
       /\ UNCHANGED << regvars, config_map, change_listeners_, version_, env_overrides_, fs,
                       script, saved >>

\* The loop is over: set returns and its lock_guard releases mutex_.
FanOutDone(t) ==
    /\ pc[t] = "fanout"
    /\ frame[t].pending = <<>>
    /\ last' = Call("set", frame[t].key, frame[t].value, Nothing, NoError, "")
    /\ Unlock(t)
    /\ Return(t)
    /\ UNCHANGED << regvars, config_map, change_listeners_, version_, env_overrides_, fs,
                    calls, script, saved >>

\* update_multiple under the lock: set(key, value) for the next pair of
\* new_cfg, or the return when there is none.
UpdateBody(t) ==
    LET f == frame[t]
    IN /\ pc[t] = "body"
       /\ f.op = "update_multiple"
       /\ IF f.pending = <<>>
          THEN /\ last' = Call("update_multiple", NoKey, Nothing, Nothing, NoError, "")
               /\ calls' = <<>>
               /\ Unlock(t)
               /\ Return(t)
          ELSE /\ frame' = [frame EXCEPT
                              ![t] = NestedCall(f, "set", f.pending[1][1], f.pending[1][2])]
               /\ pc' = [pc EXCEPT ![t] = "lock"]
               /\ UNCHANGED << last, calls, mutex_ >>
       /\ UNCHANGED << regvars, config_map, change_listeners_, version_, env_overrides_, fs,
                       script, saved >>

\* inspect keeping its lock over the lookups: no lock.unlock() before get.
InspectNextLocked(t) ==
    LET f == frame[t]
    IN /\ pc[t] = "body"
       /\ f.op = "inspect"
       /\ IF Len(f.pending) = Len(f.keys)
          THEN /\ last' = [Call("inspect", NoKey, Nothing, [t |-> "list", v |-> f.pending],
                                NoError, "") EXCEPT !.keys = f.keys]
               /\ calls' = <<>>
               /\ mutex_' = 0
               /\ Return(t)
          ELSE /\ pc' = [pc EXCEPT ![t] = "inspect_get"]
               /\ UNCHANGED << last, calls, frame, mutex_ >>
       /\ UNCHANGED << regvars, config_map, change_listeners_, version_, env_overrides_, fs,
                       script, saved >>

\* inspect holding its unique_lock: lock.unlock() before the next get, or
\* return values (the unique_lock releases mutex_).
InspectNext(t) ==
    LET f == frame[t]
    IN /\ pc[t] = "body"
       /\ f.op = "inspect"
       /\ mutex_' = 0
       /\ IF Len(f.pending) = Len(f.keys)
          THEN /\ last' = [Call("inspect", NoKey, Nothing, [t |-> "list", v |-> f.pending],
                                NoError, "") EXCEPT !.keys = f.keys]
               /\ calls' = <<>>
               /\ Return(t)
          ELSE /\ pc' = [pc EXCEPT ![t] = "inspect_get"]
               /\ UNCHANGED << last, calls, frame >>
       /\ UNCHANGED << regvars, config_map, change_listeners_, version_, env_overrides_, fs,
                       script, saved >>

\* get(key): takes mutex_, looks the key up, releases mutex_.
InspectGet(t) ==
    LET f == frame[t]
    IN /\ pc[t] = "inspect_get"
       /\ mutex_ = 0
       /\ frame' = [frame EXCEPT ![t].pending =
                       Append(@, InspectValue(config_map, f.keys[Len(f.pending) + 1]))]
       /\ pc' = [pc EXCEPT ![t] = "inspect_relock"]
       /\ UNCHANGED << regvars, config_map, change_listeners_, version_, env_overrides_,
                       mutex_, fs, calls, last, script, saved >>

\* lock.lock()
InspectRelock(t) ==
    /\ pc[t] = "inspect_relock"
    /\ mutex_ = 0
    /\ mutex_' = t
    /\ pc' = [pc EXCEPT ![t] = "body"]
    /\ UNCHANGED << regvars, config_map, change_listeners_, version_, env_overrides_, fs,
                    calls, last, frame, script, saved >>

\* backup_to_file under the lock: the stream is opened and the map written.
BackupBody(t) ==
    LET r == backup_to_file(config_map, fs, frame[t].path)
    IN /\ pc[t] = "body"
       /\ frame[t].op = "backup_to_file"
       /\ fs' = r.fs
       /\ calls' = <<>>
       /\ last' = FileCall("backup_to_file", frame[t].path, <<>>, <<>>, r.cerr)
       /\ Unlock(t)
       /\ Return(t)
       /\ UNCHANGED << regvars, config_map, change_listeners_, version_, env_overrides_, script,
                       saved >>

FanStep(t) ==
    \/ \E c \in FanCalls(t) : Invoke(t, c)
    \/ Acquire(t)
    \/ ReadBody(t)
    \/ SetStore(t)
    \/ FanOutStep(t)
    \/ FanOutDone(t)
    \/ UpdateBody(t)
    \/ InspectNext(t)
    \/ InspectGet(t)
    \/ InspectRelock(t)
    \/ BackupBody(t)
    \/ LoadOpen(t)
    \/ LoadMerge(t)
    \/ LoadFinish(t)
    \/ Crash(t)

NextFan == \E t \in Threads : FanStep(t)

SpecFan == InitFan /\ [][NextFan]_vars

\* Every thread that can take a step eventually takes one.
SpecFanLive == SpecFan /\ \A t \in Threads : WF_vars(FanStep(t))

(***************************************************************************)
(* Claims checked under SpecFan and SpecFanLive.                           *)
(***************************************************************************)
\* C16 (as claimed): while set(k, v) calls its listeners the setting thread
\* holds mutex_ and k holds v; no step of another thread changes map,
\* listener list or version before the fan-out ends; and a call made by a
\* listener on the same store never gets past taking the lock, so the set
\* never returns.
C16_FanOutUnderLock ==
    [][ \A t \in Threads :
          /\ (pc[t] = "fanout") =>
                /\ mutex_ = t
                /\ frame[t].key \in DOMAIN config_map
                /\ config_map[frame[t].key] = frame[t].value
                /\ UNCHANGED << config_map, change_listeners_, version_ >>
          /\ (frame[t].caller = "set") =>
                frame'[t] = frame[t] /\ mutex_' = t
      ]_vars

\* C18 (as claimed): every update_multiple call returns.
C18_UpdateMultipleReturns ==
    \A t \in Threads :
        (frame[t].op = "update_multiple" \/ frame[t].caller = "update_multiple")
            ~> (frame[t].op # "update_multiple" /\ frame[t].caller # "update_multiple")

\* C20: each round of inspect appends the store's value for the next key, or
\* an empty object when the key is absent; the call returns one element per
\* key, in the order of keys, without an error, with mutex_ released; no step
\* of inspect changes the map.
C20_InspectInOrder ==
    [][ \A t \in Threads :
          /\ (pc[t] = "inspect_get" /\ pc'[t] = "inspect_relock") =>
                LET key == frame[t].keys[Len(frame[t].pending) + 1]
                IN /\ frame'[t].pending =
                        Append(frame[t].pending,
                               IF key \in DOMAIN config_map THEN config_map[key]
                               ELSE JObj(EmptyMap))
                   /\ config_map' = config_map
          /\ (frame[t].op = "inspect" /\ pc[t] = "body" /\ pc'[t] = "idle") =>
                /\ last'.op = "inspect" /\ last'.thrown = NoError
                /\ last'.ret.v = frame[t].pending
                /\ Len(last'.ret.v) = Len(last'.keys)
                /\ last'.keys = frame[t].keys
                /\ mutex_' = 0
                /\ config_map' = config_map
          /\ (frame[t].op = "inspect" /\ pc[t] \in {"lock", "inspect_relock"}
                /\ pc'[t] = "body") =>
                config_map' = config_map /\ mutex_' = t
      ]_vars

\* C20 witness: inspect({"name", "example"}) returned the value of "name" and
\* the placeholder for the absent "example".
C20_Witness ==
    /\ last.op = "inspect"
    /\ last.ret.v = << JStr(<<"a">>), JObj(EmptyMap) >>
    /\ "example" \notin DOMAIN config_map
    /\ mutex_ = 0

\* C21: inspect does not hold mutex_ while it looks a key up, so other
\* threads' writes land between two lookups; every element it collects is the
\* value the key holds at the moment of its lookup (an empty object when the
\* key is absent then), a collected element never changes afterwards, and
\* the list returned is the list collected.
C21_InspectNotSnapshot ==
    [][ \A t \in Threads :
          /\ (pc[t] = "inspect_get") => mutex_ # t
          /\ (frame[t].op = "inspect" /\ frame'[t].op = "inspect") =>
                LET old == frame[t].pending
                    new == frame'[t].pending
                IN /\ Len(new) \in {Len(old), Len(old) + 1}
                   /\ SubSeq(new, 1, Len(old)) = old
                   /\ (Len(new) = Len(old) + 1) =>
                         LET key == frame[t].keys[Len(new)]
                         IN new[Len(new)] = IF exists(config_map, key) THEN config_map[key]
                                            ELSE JObj(EmptyMap)
          /\ (frame[t].op = "inspect" /\ last' # last /\ last'.op = "inspect") =>
                last'.ret.v = frame[t].pending
      ]_vars

\* C21 witness: inspect({"name", "name"}) returned the placeholder for the
\* first lookup and a value for the second: a set by the other thread took
\* effect between them, and no state of the store holds both.
C21_Witness ==
    /\ last.op = "inspect"
    /\ last.keys = <<"name", "name">>
    /\ last.ret.v[1] = JObj(EmptyMap)
    /\ last.ret.v[2] = JStr(<<"a">>)

(***************************************************************************)
(* Claims about the saves and the version, checked under SpecFile.         *)
(***************************************************************************)
\* The document holds key with value: a member of a JSON object, or a pair
\* of a YAML map whose node reads back as value.
DocHolds(content, key, value) ==
    CASE content.kind = "json" ->
            /\ content.doc.t = "object"
            /\ key \in DOMAIN content.doc.v
            /\ content.doc.v[key] = value
      [] content.kind = "yaml" ->
            \E i \in 1..Len(content.doc.v) :
                content.doc.v[i][1] = key /\ yaml_to_json(content.doc.v[i][2]) = value
      [] OTHER -> FALSE

\* The top-level keys of a document.
DocKeys(content) ==
    CASE content.kind = "json" ->
            IF content.doc.t = "object" THEN DOMAIN content.doc.v ELSE {}
      [] content.kind = "yaml" -> {content.doc.v[i][1] : i \in 1..Len(content.doc.v)}
      [] OTHER -> {}

\* The document has a version entry that is the string version.
DocVersion(content, version) ==
    CASE content.kind = "json" -> DocHolds(content, "version", JStr(version))
      [] content.kind = "yaml" ->
            \E i \in 1..Len(content.doc.v) :
                content.doc.v[i] = <<"version", YScalar(version)>>
      [] OTHER -> FALSE

\* C25 (as claimed): after a save_to_file(path, version) that reports no
\* error, the file at path is a document that holds every key of the map
\* with its value and a version entry equal to the version argument, and the
\* map is as it was.
C25_SaveWritesMapAndVersion ==
    [][ (last'.op = "save_to_file" /\ last'.cerr = "") =>
            /\ \A k \in DOMAIN config_map : DocHolds(fs'[last'.path], k, config_map[k])
            /\ DocVersion(fs'[last'.path], last'.version)
            /\ config_map' = config_map
      ]_vars

\* C26 (as claimed): after a save_partial_to_file(path, keys) that reports
\* no error, the keys of the file's document are the keys of `keys` that the
\* store holds, each with its value, with no version entry besides;
\* load_partial_from_file(path, keys) changes no key that is not both in the
\* file and in `keys`, and not the version.
C26_PartialFrame ==
    [][ /\ (last'.op = "save_partial_to_file" /\ last'.cerr = "") =>
              LET ks == {last'.keys[i] : i \in 1..Len(last'.keys)} \cap DOMAIN config_map
              IN /\ DocKeys(fs'[last'.path]) = ks
                 /\ \A k \in ks : DocHolds(fs'[last'.path], k, config_map[k])
                 /\ config_map' = config_map
        /\ (last'.op = "load_partial_from_file") =>
              LET ks == {last'.keys[i] : i \in 1..Len(last'.keys)}
                  inFile == IF CanOpenForRead(fs, last'.path)
                            THEN DocKeys(fs[last'.path]) ELSE {}
              IN /\ \A k \in (DOMAIN config_map \cup DOMAIN config_map') \ (ks \cap inFile) :
                        /\ k \in DOMAIN config_map /\ k \in DOMAIN config_map'
                        /\ config_map'[k] = config_map[k]
                 /\ version_' = version_
      ]_vars

\* C28 (as claimed): a store no call has been made on has version "1.0.0";
\* a load_from_file or save_to_file that reports no error leaves the version
\* argument as the store's version; every other step keeps the version.
C28_VersionTracksLoadAndSave ==
    [][ /\ (last.op = "none" /\ config_map = EmptyMap) => version_ = V1
        /\ (last'.op \in {"load_from_file", "save_to_file"} /\ last'.cerr = "")
              => version_' = last'.version
        /\ (last'.op \notin {"load_from_file", "save_to_file"}) => version_' = version_
      ]_vars

(***************************************************************************)
(* Claims about backup_to_file, checked under SpecFan.                     *)
(***************************************************************************)
\* C27: the step in which backup_to_file opens and writes the file is taken
\* with mutex_ held by the calling thread; on a path that opens, whatever its
\* extension, the file becomes the JSON object of the map (the map's keys
\* and values, nothing added) and no other file changes; on a path that does
\* not open no file changes; map, listener list and version are as they
\* were.
C27_BackupIsJsonUnderLock ==
    [][ \A t \in Threads :
          (frame[t].op = "backup_to_file" /\ pc[t] = "body" /\ pc'[t] = "idle") =>
              LET path == frame[t].path
              IN /\ mutex_ = t
                 /\ last'.op = "backup_to_file" /\ last'.path = path
                 /\ UNCHANGED << config_map, change_listeners_, version_ >>
                 /\ IF CanOpenForWrite(path)
                    THEN /\ DOMAIN fs' = DOMAIN fs \cup {path}
                         /\ fs'[path] = JsonText(JObj(config_map))
                         /\ \A p \in DOMAIN fs \ {path} : fs'[p] = fs[p]
                         /\ last'.cerr = ""
                    ELSE fs' = fs /\ last'.cerr # ""
      ]_vars

\* C27 witness: backup_to_file("c.yaml") wrote the JSON object of a map
\* that holds "name".
C27_Witness ==
    /\ last.op = "backup_to_file" /\ last.path = PathYaml /\ last.cerr = ""
    /\ exists(config_map, "name")
    /\ PathYaml \in DOMAIN fs
    /\ fs[PathYaml] = JsonText(JObj(config_map))
    /\ mutex_ = 0

(***************************************************************************)
(* SpecTwo: stores that are different objects.  Thread 1 works on a store  *)
(* of its own (the Config of config_map, mutex_, ...) and thread 2 on the   *)
(* store the registry gives it for "app"; both also call the registry.     *)
(***************************************************************************)
TwoCalls ==
    { [NoFrame EXCEPT !.op = "set", !.key = "name", !.value = JStr(<<"a">>)],
      [NoFrame EXCEPT !.op = "update_multiple", !.pending = << <<"name", JStr(<<"a">>)>> >>] }

InitTwo ==
    /\ config_map = EmptyMap
    /\ change_listeners_ \in {<<>>, <<"l1">>, <<"l1", "l2">>}
    /\ version_ = V0
    /\ env_overrides_ = [k \in {} |-> <<>>]
    /\ mutex_ = 0
    /\ fs = NoFiles
    /\ calls = <<>>
    /\ last = NoCall
    /\ pc = Idle
    /\ frame = NoFrames
    /\ script = NoScript
    /\ saved = EmptyMap
    /\ NoRegistry

\* A step of an operation of thread 1's own store.
OwnStoreStep ==
    \/ \E c \in TwoCalls : Invoke(1, c)
    \/ Acquire(1)
    \/ SetStore(1)
    \/ FanOutStep(1)
    \/ FanOutDone(1)
    \/ UpdateBody(1)

\* A call of thread 2 on the store it was given.
HandleStep ==
    \/ HandleSet(2, "name", JStr(<<"a">>))
    \/ HandleSet(2, "example", JStr(<<"a">>))
    \/ HandleGet(2, "name")

NextTwo ==
    \/ OwnStoreStep
    \/ HandleStep
    \/ \E op \in {"instance", "get_pooled_config"} : RegInvoke(1, op, NoArg)
    \/ \E op \in {"instance", "create_thread_safe_config"} : RegInvoke(2, op, "app")
    \/ \E t \in Threads :
          \/ OuterLock(t)
          \/ PoolFind(t)
          \/ RegLock(t)
          \/ RegFind(t)
          \/ RegMake(t)
          \/ RegReturn(t)
          \/ OuterReturn(t)

SpecTwo == InitTwo /\ [][NextTwo]_vars

\* C30: a call of thread 2 on its store can be made and completes in one
\* step in every state in which thread 2 holds a store and is not inside
\* another call, whoever holds or waits for the mutex of thread 1's store
\* and for the registry and factory mutexes; thread 1 gets the mutex of its
\* own store whenever that mutex is free; and no step of a store operation
\* changes the registry and factory mutexes or the other store's mutex.
C30_StoresDoNotContend ==
    [][ /\ (pc[2] = "idle" /\ handles[2].id # 0) =>
              /\ ENABLED HandleGet(2, "name")
              /\ ENABLED HandleSet(2, "name", JStr(<<"a">>))
        /\ (pc[1] = "lock" /\ mutex_ = 0) => ENABLED Acquire(1)
        /\ OwnStoreStep => UNCHANGED << locks, stores >>
        /\ HandleStep =>
              /\ UNCHANGED << locks, mutex_, config_map >>
              /\ \A i \in DOMAIN stores \ {handles[2].id} : stores'[i] = stores[i]
      ]_vars

\* C30 witness: thread 1 holds the mutex of its store and waits for it
\* again (update_multiple inside its call of set), and the last call
\* completed is a get of thread 2 on the store "app" that found the value
\* thread 2 had set.
C30_Witness ==
    /\ pc[1] = "lock" /\ mutex_ = 1 /\ frame[1].caller = "update_multiple"
    /\ handles[2].name = "app" /\ handles[2].id # 0
    /\ last.op = "get" /\ last.handle = handles[2] /\ last.ret = JStr(<<"a">>)
    /\ pc[2] = "idle"

(***************************************************************************)
(* SpecPool: two threads asking the registry, the factory and the pool for *)
(* the one name "app", using the handles they are given and dropping them. *)
(***************************************************************************)
\* delete p, the deleter of a shared_ptr that owns its Config.
DefaultDelete(c) == [c EXCEPT !.alive = FALSE]

\* [](Config*) {}, the deleter the factory gives its shared_ptr.
Deleter(c) == c

\* The last copy of a handle goes out of scope.  A shared_ptr made by
\* create_config or create_thread_safe_config is the only owner of its
\* control block, so its deleter runs; a copy of the pool's shared_ptr
\* leaves the pool's own copy behind; a reference owns nothing.
DropHandle(t) ==
    LET h == handles[t]
    IN /\ pc[t] = "idle"
       /\ h.id # 0
       /\ handles' = [handles EXCEPT ![t] = NoHandle]
       /\ stores' = IF h.block = "own"
                    THEN [stores EXCEPT ![h.id] = Deleter(@)]
                    ELSE stores
       /\ calls' = <<>>
       /\ last' = [Call("drop", h.name, Nothing, Nothing, NoError, "") EXCEPT !.handle = h]
       /\ UNCHANGED << instances, pool, locks, config_map, change_listeners_, version_,
                       env_overrides_, mutex_, fs, pc, frame, script, saved >>

\* A step of a registry, factory or pool call of thread t.
PoolStep(t) ==
    \/ \E op \in RegOps : RegInvoke(t, op, "app")
    \/ OuterLock(t)
    \/ PoolFind(t)
    \/ RegLock(t)
    \/ RegFind(t)
    \/ RegMake(t)
    \/ RegReturn(t)
    \/ OuterReturn(t)

NextPool ==
    \/ \E t \in Threads : PoolStep(t) \/ DropHandle(t)
    \/ HandleSet(1, "name", JStr(<<"a">>))
    \/ HandleAddListener(1, "l1")
    \/ HandleGet(2, "name")

SpecPool == InitReg /\ [][NextPool]_vars

\* C31: no step removes a name from the registry or gives it another store;
\* dropping a handle leaves every store as it was; every registered store
\* exists; and Config::instance(n) for a registered n returns the store
\* registered before the call, unchanged by the call.
C31_DropKeepsStore ==
    [][ /\ \A n \in DOMAIN instances :
              n \in DOMAIN instances' /\ instances'[n] = instances[n]
        /\ \A n \in DOMAIN instances' : stores'[instances'[n]].alive
        /\ (last' # last /\ last'.op = "drop") =>
              /\ stores' = stores
              /\ UNCHANGED << instances, pool >>
        /\ (last' # last /\ last'.op = "instance" /\ last'.key \in DOMAIN instances) =>
              /\ last'.ret = ConfigRef(instances[last'.key])
              /\ stores'[instances[last'.key]] = stores[instances[last'.key]]
      ]_vars

\* C31 witness: the last handle held by any thread, a shared_ptr with a
\* control block of its own, has just been dropped, and the registry still
\* holds the store for "app" with the key and the listener it was given.
C31_Witness ==
    /\ last.op = "drop" /\ last.handle.block = "own" /\ last.handle.name = "app"
    /\ \A t \in Threads : handles[t] = NoHandle
    /\ "app" \in DOMAIN pool
    /\ instances["app"] = last.handle.id
    /\ stores[instances["app"]].config_map = [k \in {"name"} |-> JStr(<<"a">>)]
    /\ stores[instances["app"]].change_listeners_ = <<"l1">>
    /\ stores[instances["app"]].version_ = V0
    /\ stores[instances["app"]].alive

\* C38: the pool's entry for a name is the registry's store for that name;
\* get_pooled_config(n) returns that store, the one the pool already held
\* for n if it held one; and a get or set through a pooled handle or through
\* the reference Config::instance gave reads or writes that same store.
C38_PooledIsRegistryStore ==
    [][ /\ \A n \in DOMAIN pool' :
              n \in DOMAIN instances' /\ pool'[n] = instances'[n]
        /\ (last' # last /\ last'.op = "get_pooled_config") =>
              /\ last'.key \in DOMAIN pool'
              /\ last'.ret = ConfigRef(pool'[last'.key])
              /\ last'.ret = ConfigRef(instances'[last'.key])
              /\ (last'.key \in DOMAIN pool) => last'.ret = ConfigRef(pool[last'.key])
        /\ (last' # last /\ last'.op = "get" /\ last'.handle.block \in {"pool", "ref"}) =>
              /\ [ret |-> last'.ret, thrown |-> last'.thrown]
                    = get(stores[instances[last'.handle.name]].config_map, last'.key)
              /\ (last'.handle.name \in DOMAIN pool) =>
                    last'.handle.id = pool[last'.handle.name]
        /\ (last' # last /\ last'.op = "set" /\ last'.handle.block \in {"pool", "ref"}
              /\ last'.thrown = NoError) =>
              /\ stores'[instances[last'.handle.name]].config_map[last'.key] = last'.value
              /\ (last'.handle.name \in DOMAIN pool) =>
                    stores'[pool[last'.handle.name]].config_map[last'.key] = last'.value
      ]_vars

\* C38 witness: thread 1 holds a pooled handle for "app", thread 2 the
\* reference Config::instance("app") gave it, and a get through that
\* reference has just returned the value set for "name".
C38_Witness ==
    /\ handles[1].block = "pool" /\ handles[1].name = "app"
    /\ handles[2].block = "ref" /\ handles[2].id = handles[1].id
    /\ last.op = "get" /\ last.handle = handles[2] /\ last.ret = JStr(<<"a">>)
    /\ pool["app"] = instances["app"]

\* C38 witness, the other direction: thread 1 holds the reference, thread 2
\* a pooled handle, and the get through the pooled handle found the value.
C38_WitnessBack ==
    /\ handles[1].block = "ref" /\ handles[2].block = "pool"
    /\ handles[2].id = handles[1].id
    /\ last.op = "get" /\ last.handle = handles[2] /\ last.ret = JStr(<<"a">>)

(***************************************************************************)
(* SpecPoolLive: SpecPool with every thread that can take a step of its    *)
(* call again and again taking one: a thread waiting for a std::mutex that *)
(* keeps being released gets it in the end, and a running thread goes on.  *)
(***************************************************************************)
SpecPoolLive == SpecPool /\ \A t \in Threads : SF_vars(PoolStep(t))

\* The thread t takes the mutex m in this step.
Takes(t, m) == locks[m] # t /\ locks'[m] = t

\* C40: a thread takes the factory's or the pool's mutex only while it holds
\* neither the registry's mutex nor the other of the two, takes none of the
\* three while it holds the mutex of a store, and every call of
\* Config::instance, create_config, create_thread_safe_config and
\* get_pooled_config that has started returns.
C40_RegistryLocksInOrder ==
    /\ [][ \A t \in Threads :
              /\ \A m \in {"thread_safe", "pool"} :
                    Takes(t, m) =>
                        \A o \in DOMAIN locks \ {m} : locks[o] # t
              /\ \A m \in DOMAIN locks :
                    Takes(t, m) =>
                        /\ mutex_ # t
                        /\ \A i \in DOMAIN stores : stores[i].mutex_ # t
         ]_vars
    /\ \A t \in Threads : (pc[t] # "idle") ~> (pc[t] = "idle")

\* C40 witness: thread 1, inside get_pooled_config, holds the pool's mutex
\* and the registry's; thread 2, inside create_thread_safe_config, holds the
\* factory's mutex and waits for the registry's.
C40_Witness ==
    /\ frame[1].op = "get_pooled_config" /\ frame[2].op = "create_thread_safe_config"
    /\ locks = [m \in {"instance", "thread_safe", "pool"} |->
                   IF m = "thread_safe" THEN 2 ELSE 1]
    /\ pc[1] = "reg_ret" /\ pc[2] = "reg_lock"

(***************************************************************************)
(* SpecFactory: one thread calling ConfigFactory::                         *)
(* create_new_config_from_existing and create_env_config, registering      *)
(* listeners on the stores it is given and setting keys through them.      *)
(***************************************************************************)
UnsupportedEnvironment == "Unsupported environment"

Environments == {"development", "production", "testing", "staging"}

\* The preset strings are texts of one unit: nothing looks at their
\* characters.
EnvPreset(environment) ==
    CASE environment = "development" ->
            << <<"db_host", JStr(<<"localhost">>)>>,
               <<"db_port", JInt(5432)>>,
               <<"api_endpoint", JStr(<<"https://dev.api.example.com">>)>>,
               <<"log_level", JStr(<<"debug">>)>>,
               <<"feature_x_enabled", JBool(TRUE)>> >>
      [] environment = "production" ->
            << <<"db_host", JStr(<<"prod.db.server">>)>>,
               <<"db_port", JInt(5432)>>,
               <<"api_endpoint", JStr(<<"https://api.example.com">>)>>,
               <<"log_level", JStr(<<"error">>)>>,
               <<"feature_x_enabled", JBool(FALSE)>> >>
      [] environment = "testing" ->
            << <<"db_host", JStr(<<"test.db.server">>)>>,
               <<"db_port", JInt(5432)>>,
               <<"api_endpoint", JStr(<<"https://test.api.example.com">>)>>,
               <<"log_level", JStr(<<"info">>)>>,
               <<"feature_x_enabled", JBool(TRUE)>> >>
      [] OTHER -> <<>>

\* Config::instance(name) from lock to unlock: the registry and the stores
\* after the call, and the store returned.
instance(insts, ss, name) ==
    IF FindInstance(insts, name)
    THEN [instances |-> insts, stores |-> ss, id |-> insts[name]]
    ELSE LET id == Cardinality(DOMAIN ss) + 1
         IN [instances |-> [n \in DOMAIN insts \cup {name} |->
                               IF n = name THEN id ELSE insts[n]],
             stores |-> [i \in DOMAIN ss \cup {id} |-> IF i = id THEN NewConfig ELSE ss[i]],
             id |-> id]

\* Config::load_from_file(path): load_from_file(path, "1.0.0") inside
\* try { } catch (const std::exception &), which reports and returns.
load_from_file_path(cm, ver, files, path) ==
    LET r == load_from_file(cm, ver, files, path, <<"1", ".", "0", ".", "0">>)
    IN [config_map |-> r.config_map, version_ |-> r.version_, cerr |-> r.cerr,
        thrown |-> NoError]

\* config->set(key, value) for each pair in turn; an exception of set ends
\* the sequence.
RECURSIVE SetEach(_, _, _)
SetEach(cm, listeners, pairs) ==
    IF pairs = <<>> THEN [config_map |-> cm, calls |-> <<>>, thrown |-> NoError]
    ELSE LET r == set(cm, listeners, pairs[1][1], pairs[1][2])
         IN IF r.thrown # NoError THEN r
            ELSE LET rest == SetEach(r.config_map, listeners, Tail(pairs))
                 IN [config_map |-> rest.config_map, calls |-> r.calls \o rest.calls,
                     thrown |-> rest.thrown]

\* create_new_config_from_existing on the store c that create_config(name)
\* gave: null is TRUE when nullptr is returned.
create_new_config_from_existing(c, files, path) ==
    LET r == load_from_file_path(c.config_map, c.version_, files, path)
    IN [config_map |-> r.config_map, version_ |-> r.version_, cerr |-> r.cerr,
        null |-> r.thrown # NoError]

\* create_env_config on the store c that create_config(name) gave.
create_env_config(c, environment) ==
    IF environment \in {"development", "production", "testing"}
    THEN SetEach(c.config_map, c.change_listeners_, EnvPreset(environment))
    ELSE [config_map |-> c.config_map, calls |-> <<>>, thrown |-> UnsupportedEnvironment]

CreateNewConfigFromExisting(name, path) ==
    LET g == instance(instances, stores, name)
        r == create_new_config_from_existing(g.stores[g.id], fs, path)
    IN /\ pc[1] = "idle"
       /\ Cardinality(DOMAIN g.stores) <= MaxStores
       /\ instances' = g.instances
       /\ stores' = [g.stores EXCEPT ![g.id].config_map = r.config_map,
                                     ![g.id].version_ = r.version_]
       /\ handles' = [handles EXCEPT ![1] =
                         IF r.null THEN NoHandle
                         ELSE [name |-> name, id |-> g.id, block |-> "own"]]
       /\ calls' = <<>>
       /\ last' = [FileCall("create_new_config_from_existing", path, <<>>, <<>>, r.cerr)
                     EXCEPT !.key = name,
                            !.ret = IF r.null THEN Nothing ELSE ConfigRef(g.id)]
       /\ UNCHANGED << pool, locks, config_map, change_listeners_, version_, env_overrides_,
                       mutex_, fs, pc, frame, script, saved >>

CreateEnvConfig(name, environment) ==
    LET g == instance(instances, stores, name)
        r == create_env_config(g.stores[g.id], environment)
    IN /\ pc[1] = "idle"
       /\ Cardinality(DOMAIN g.stores) <= MaxStores
       /\ instances' = g.instances
       /\ stores' = [g.stores EXCEPT ![g.id].config_map = r.config_map]
       /\ handles' = [handles EXCEPT ![1] =
                         IF r.thrown # NoError THEN @
                         ELSE [name |-> name, id |-> g.id, block |-> "own"]]
       /\ calls' = r.calls
       /\ last' = [Call("create_env_config", name, Nothing,
                        IF r.thrown # NoError THEN Nothing ELSE ConfigRef(g.id),
                        r.thrown, "")
                     EXCEPT !.path = <<environment>>]
       /\ UNCHANGED << pool, locks, config_map, change_listeners_, version_, env_overrides_,
                       mutex_, fs, pc, frame, script, saved >>

\* A file that loads, a file that cannot be parsed, a file with an
\* unsupported extension, a file that does not exist.
FactoryPaths == {PathJson, PathBad, PathTxt, PathNoDir}

NextFactory ==
    \/ \E path \in FactoryPaths : CreateNewConfigFromExisting("app", path)
    \/ \E name \in Names, environment \in Environments : CreateEnvConfig(name, environment)
    \/ \E l \in {"l1", "thrower"} : HandleAddListener(1, l)
    \/ HandleSet(1, "name", JStr(<<"a">>))
    \/ HandleGet(1, "db_host")

SpecFactory == InitReg /\ [][NextFactory]_vars

\* The load of the last create_new_config_from_existing call failed: the
\* file could not be opened, its extension is not supported, or its content
\* could not be parsed or converted.
LoadFailedIn(call) == call.cerr # ""

\* C32 (as claimed): create_new_config_from_existing returns no instance
\* when the load fails and a handle on the store of that name when the load
\* succeeds.
C32_NullOnFailedLoad ==
    [][ (last' # last /\ last'.op = "create_new_config_from_existing") =>
            /\ LoadFailedIn(last') => (last'.ret = Nothing /\ handles'[1] = NoHandle)
            /\ ~LoadFailedIn(last') =>
                  /\ last'.ret = ConfigRef(instances'[last'.key])
                  /\ handles'[1].id = instances'[last'.key]
      ]_vars

\* The preset as a map.
PresetMap(environment) ==
    [k \in {EnvPreset(environment)[i][1] : i \in 1..Len(EnvPreset(environment))} |->
        (CHOOSE pr \in {EnvPreset(environment)[i] : i \in 1..Len(EnvPreset(environment))} :
            pr[1] = k)[2]]

\* C33 (as claimed): create_env_config(name, env) with env one of
\* development, production, testing leaves the five preset keys of the
\* store name at the preset values, having called every listener of that
\* store once per key, in the order of the sets, and returns the store; with
\* any other env it fails with UnsupportedEnvironment and no key of any
\* store is set.
C33_EnvPreset ==
    [][ (last' # last /\ last'.op = "create_env_config") =>
            LET environment == last'.path[1]
                id == instances'[last'.key]
                ls == stores'[id].change_listeners_
                ps == EnvPreset(environment)
            IN IF environment \in {"development", "production", "testing"}
               THEN /\ last'.thrown = NoError
                    /\ last'.ret = ConfigRef(id)
                    /\ \A k \in DOMAIN PresetMap(environment) :
                          /\ k \in DOMAIN stores'[id].config_map
                          /\ stores'[id].config_map[k] = PresetMap(environment)[k]
                    /\ calls' = [i \in 1..(Len(ps) * Len(ls)) |->
                                    << ls[((i - 1) % Len(ls)) + 1],
                                       ps[((i - 1) \div Len(ls)) + 1][1],
                                       ps[((i - 1) \div Len(ls)) + 1][2] >>]
                    /\ \A i \in DOMAIN stores : i # id => stores'[i] = stores[i]
               ELSE /\ last'.thrown = UnsupportedEnvironment
                    /\ calls' = <<>>
                    /\ \A i \in DOMAIN stores : stores'[i] = stores[i]
                    /\ \A i \in DOMAIN stores' \ DOMAIN stores :
                          stores'[i].config_map = EmptyMap
      ]_vars

(***************************************************************************)
(* Claims about a listener that throws, checked under Spec and SpecFan.    *)
(***************************************************************************)
\* C34 (as claimed): a set(k, v) that passes the key and "example" checks
\* calls every registered listener once, in order, whether or not one of
\* them throws, and returns normally.
C34_ListenersIsolated ==
    [][ (last' # last /\ last'.op = "set"
           /\ last'.thrown \notin {InvalidKey, InvalidValue}) =>
            /\ last'.thrown = NoError
            /\ calls' = [i \in 1..Len(change_listeners_) |->
                            <<change_listeners_[i], last'.key, last'.value>>]
      ]_vars

\* C37: the step of set(k, v) that calls a listener which throws ends the
\* call with the listener's exception, after the step that stored v under
\* k; it leaves the map as it is and mutex_ free, and the listeners after
\* the thrower are not called; a get returns what the map holds.
C37_ThrowKeepsWrite ==
    [][ /\ \A t \in Threads :
              /\ (pc[t] = "body" /\ pc'[t] = "fanout") =>
                    config_map' = Put(config_map, frame[t].key, frame[t].value)
              /\ (pc[t] = "fanout" /\ frame[t].pending # <<>>
                    /\ ListenerThrows(Head(frame[t].pending))
                    /\ (pc'[t] # pc[t] \/ frame'[t] # frame[t])) =>
                    /\ pc'[t] = "idle"
                    /\ last' = Call("set", frame[t].key, frame[t].value, Nothing,
                                    ListenerError, "")
                    /\ mutex_ = t /\ mutex_' = 0
                    /\ config_map' = config_map
                    /\ calls' = Append(calls, <<Head(frame[t].pending), frame[t].key,
                                                frame[t].value>>)
        /\ (last' # last /\ last'.op = "get") =>
              [ret |-> last'.ret, thrown |-> last'.thrown] = get(config_map, last'.key)
      ]_vars

\* C37 witness: set("name", "a") has just ended with the exception of the
\* second listener, the map holds "a" under "name", mutex_ is free and thread
\* 2, which waited for it inside get("name"), can take it.
C37_Witness ==
    /\ last.op = "set" /\ last.thrown = ListenerError
    /\ Len(calls) = 2 /\ calls[2][1] = "thrower"
    /\ last.key = "name" /\ get(config_map, "name").ret = last.value
    /\ mutex_ = 0
    /\ pc[1] = "idle" /\ pc[2] = "lock" /\ frame[2].op = "get"

(***************************************************************************)
(* SpecYaml: the bridge applied to values drawn from BridgeInputs.  last   *)
(* holds the value a conversion was applied to and its result; saved holds *)
(* the JSON value a round trip started from.                               *)
(***************************************************************************)
\* Scalar texts: every spelling of a boolean, integers with and without
\* sign, decimals, and texts that are none of them.
ScalarTexts ==
    YamlTrueNames \cup YamlFalseNames \cup
    { <<"4", "2">>, <<"-", "7">>, <<"0">>, <<"+", "5">>, IntToChars(INT_MAX),
      <<"1", ".", "5">>, <<"2", ".", "0">>, <<".", "5">>, <<"-", "0", ".", "2", "5">>,
      <<"1", ".">>,
      <<"a", "b", "c">>, <<>>, <<"1", ".", "2", ".", "3">>, <<"t", "r", "u">>,
      <<"4", "x">>, <<"-">>, <<".">> }

ElementTexts == { <<"4", "2">>, <<"y", "e", "s">>, <<"1", ".", "5">>, <<"a", "b", "c">> }

\* 64-bit integers: inside the 32-bit range, and 2^32 + 42, 2^32 - 1,
\* -2^33 + 5 and 2^63 - 2^32 + 7 outside it.
IntInputs ==
    { JInt(0), JInt(42), JInt(-7), JInt(INT_MAX), JInt(0 - INT_MAX),
      JInt64(1, 42), JInt64(0, -1), JInt64(-2, 5), JInt64(INT_MAX, 7) }

ElementValues == <<JInt(42), JInt64(1, 42), JStr(<<"a">>)>>

\* The bridge is about to be applied to x, a YAML node or a JSON value.
BridgeInput(kind, x) ==
    /\ script = [NoScript EXCEPT !.at = "input", !.kind = kind]
    /\ last = Call("input", NoKey, x, Nothing, NoError, "")

\* YAML nodes: null, scalars, sequences (empty, of scalars, nested) and maps
\* (of scalars and sequences, and with one key twice).
YamlInputs ==
    \/ BridgeInput("yaml", YNull)
    \/ BridgeInput("yaml", YSeq(<<>>))
    \/ \E x \in ScalarTexts : BridgeInput("yaml", YScalar(x))
    \/ \E x, y \in ElementTexts : BridgeInput("yaml", YSeq(<<YScalar(x), YScalar(y)>>))
    \/ \E x \in ElementTexts : BridgeInput("yaml", YSeq(<<YSeq(<<YScalar(x)>>), YNull>>))
    \/ \E x, y \in ElementTexts :
          BridgeInput("yaml", YMap(<< <<"name", YScalar(x)>>,
                                      <<"example", YSeq(<<YScalar(y)>>)>> >>))
    \/ \E x, y \in ElementTexts :
          BridgeInput("yaml", YMap(<< <<"name", YScalar(x)>>, <<"name", YScalar(y)>> >>))

\* JSON values: integers, arrays and objects that hold them.
JsonInputs ==
    \/ \E x \in IntInputs : BridgeInput("json", x)
    \/ \E i, k \in 1..Len(ElementValues) :
          BridgeInput("json", JArr(<<ElementValues[i], ElementValues[k]>>))
    \/ \E x \in IntInputs : BridgeInput("json", JObj([k \in {"name"} |-> x]))

InitYaml ==
    /\ config_map = EmptyMap
    /\ change_listeners_ = <<>>
    /\ version_ = V0
    /\ env_overrides_ = [k \in {} |-> <<>>]
    /\ mutex_ = 0
    /\ fs = NoFiles
    /\ calls = <<>>
    /\ (YamlInputs \/ JsonInputs)
    /\ pc = Idle
    /\ frame = NoFrames
    /\ saved = EmptyMap
    /\ NoRegistry

\* node = json_to_yaml(j)
JsonToYaml ==
    /\ script.at = "input" /\ script.kind = "json"
    /\ last' = Call("json_to_yaml", NoKey, last.value, json_to_yaml(last.value), NoError, "")
    /\ saved' = last.value
    /\ script' = [script EXCEPT !.at = "json_to_yaml"]
    /\ UNCHANGED << regvars, config_map, change_listeners_, version_, env_overrides_, mutex_,
                    fs, calls, pc, frame >>

\* j = yaml_to_json(node), on a node drawn or on the node json_to_yaml made
YamlToJson ==
    LET node == IF script.at = "input" THEN last.value ELSE last.ret
    IN /\ \/ script.at = "input" /\ script.kind = "yaml"
          \/ script.at = "json_to_yaml"
       /\ last' = Call("yaml_to_json", NoKey, node, yaml_to_json(node), NoError, "")
       /\ script' = [script EXCEPT !.at = IF @ = "input" THEN "yaml_to_json"
                                          ELSE "round trip"]
       /\ UNCHANGED << regvars, config_map, change_listeners_, version_, env_overrides_,
                       mutex_, fs, calls, pc, frame, saved >>

NextYaml == JsonToYaml \/ YamlToJson

SpecYaml == InitYaml /\ [][NextYaml]_vars

\* The value of the last pair of pairs whose key is k.
LastValue(pairs, k) ==
    pairs[CHOOSE i \in 1..Len(pairs) :
             pairs[i][1] = k /\ \A n \in (i + 1)..Len(pairs) : pairs[n][1] # k][2]

\* C35: yaml_to_json turns a scalar whose text reads as a boolean into that
\* boolean; otherwise one whose text reads as an integer into that integer;
\* otherwise one whose text reads as a decimal into that float; and into the
\* string of its text exactly when the text reads as none of the three.  A
\* sequence becomes the array of its converted elements, in order, and a map
\* the object of its converted values under their keys.
C35_ScalarOrder ==
    (last.op = "yaml_to_json") =>
        LET node == last.value
            j == last.ret
        IN CASE node.type = "Scalar" ->
                   /\ ParsesAsBool(node.v) => j = JBool(node.v \in YamlTrueNames)
                   /\ (~ParsesAsBool(node.v) /\ ParsesAsInt(node.v)) =>
                         j = JInt(TextToInt(node.v))
                   /\ (~ParsesAsBool(node.v) /\ ~ParsesAsInt(node.v)
                         /\ ParsesAsDouble(node.v)) =>
                         (j.t = "number_float" /\ j = TextToFloat(node.v))
                   /\ (j.t = "string") <=>
                         (~ParsesAsBool(node.v) /\ ~ParsesAsInt(node.v)
                            /\ ~ParsesAsDouble(node.v))
                   /\ (j.t = "string") => j.v = node.v
             [] node.type = "Sequence" /\ node.v # <<>> ->
                   /\ j.t = "array"
                   /\ Len(j.v) = Len(node.v)
                   /\ \A i \in 1..Len(node.v) : j.v[i] = yaml_to_json(node.v[i])
             [] node.type = "Map" /\ node.v # <<>> ->
                   /\ j.t = "object"
                   /\ DOMAIN j.v = {node.v[i][1] : i \in 1..Len(node.v)}
                   /\ \A k \in DOMAIN j.v : j.v[k] = yaml_to_json(LastValue(node.v, k))
             [] OTHER -> TRUE

\* C35 witness: the sequence [42, yes] has been converted to the array of
\* the integer 42 and the boolean true.
C35_Witness ==
    /\ last.op = "yaml_to_json" /\ script.at = "yaml_to_json"
    /\ last.value.type = "Sequence" /\ Len(last.value.v) = 2
    /\ last.value.v[1].type = "Scalar" /\ last.value.v[1].v = <<"4", "2">>
    /\ last.value.v[2].type = "Scalar" /\ last.value.v[2].v = <<"y", "e", "s">>
    /\ last.ret.t = "array" /\ Len(last.ret.v) = 2
    /\ last.ret.v[1].t = "number_integer" /\ last.ret.v[1].v = <<0, 42>>
    /\ last.ret.v[2].t = "boolean" /\ last.ret.v[2].v = TRUE

\* C36 (as claimed): an integer that goes through json_to_yaml and then
\* yaml_to_json comes back as the same 64-bit integer.
C36_IntegerRoundTrip ==
    (script.at = "round trip" /\ saved.t = "number_integer") => last.ret = saved

(***************************************************************************)
(* Claims about the version entry of a saved file, checked under SpecFile. *)
(***************************************************************************)
\* The version argument save_to_file wrote into the document.
VersionWritten(content) ==
    CASE content.kind = "json" -> content.doc.v["version"].v
      [] content.kind = "yaml" -> content.doc.v[1][2].v

\* The full save / clear() / load scenario ran on a path both calls accept.
FullScenarioLoaded ==
    /\ script.at = "loaded" /\ script.kind = "full"
    /\ Codec(script.path) \in {"json", "yaml"}
    /\ CanOpenForWrite(script.path)

\* C39 (as claimed): after save_to_file(p, v), clear() and
\* load_from_file(p, w), the key "version" exists and holds the string v,
\* and the store's version is w, whether or not w is v.
C39_VersionIsAKey ==
    FullScenarioLoaded =>
        /\ exists(config_map, "version")
        /\ get(config_map, "version") =
              [ret |-> JStr(VersionWritten(fs[script.path])), thrown |-> NoError]
        /\ version_ = last.version

====
